---- MODULE Spec2Model ----
(***************************************************************************)
(* Model of the directed-forest analyzer:                                  *)
(*   - forest_merger_gui.pyw: ForestMergerApp (load, compare, merge)       *)
(*   - conversation_analyzer.pyw: get_message_category, _find_all_branches *)
(* JSON values are tagged tuples, so that an absent key, a JSON null and a *)
(* number stay distinct values, as they are for dict.get in the source.    *)
(***************************************************************************)
EXTENDS Integers, Sequences, FiniteSets, TLC

VARIABLES
    disk,                   \* the two export files the user can browse to
    hash_order,             \* this process's iteration order of a set of ids
    older_data,             \* ForestMergerApp.older_data
    newer_data,             \* ForestMergerApp.newer_data
    older_count_var,        \* ForestMergerApp.older_count_var
    newer_count_var,        \* ForestMergerApp.newer_count_var
    missing_conversations,  \* ForestMergerApp.missing_conversations
    sort_column,            \* ForestMergerApp.sort_column
    sort_reverse,           \* ForestMergerApp.sort_reverse
    summary_var,            \* ForestMergerApp.summary_var
    merged_file,            \* content of the file _merge_files writes
    messagebox,             \* the dialog the last handler showed
    last_handler,           \* the callback that ran last
    msg,                    \* the message handed to get_message_category
    category,               \* what get_message_category returned
    mapping,                \* the mapping handed to _find_all_branches
    empty_key,              \* the position of the key "" in mapping, 0 if none
    fb_pc,                  \* position in _find_all_branches
    stack,                  \* its local stack of (node_id, path_so_far)
    branches,               \* its local branches, returned at the end
    pv_path,                \* the message of each node on the path previewed
    preview,                \* what _get_branch_preview returned
    indexes,                \* the ConversationIndex objects created so far
    cur_index,              \* ConversationAnalyzerApp.index: 0 (None) or an object
    query_str,              \* the query string of a search call
    scope,                  \* None, or the conv_id of search_in_conversation
    outcome,                \* None, the hits returned, or the exception raised
    threads,                \* the load threads _open_file has started
    after_queue,            \* the callbacks queued with root.after
    status_var,             \* ConversationAnalyzerApp.status_var
    error_dialogs,          \* number of messagebox.showerror dialogs shown
    conv_tree,              \* the conversation ids listed in conv_tree
    ex_content,             \* the content handed to extract_text_from_content
    extracted,              \* what extract_text_from_content returned
    current_conv_id,        \* ConversationAnalyzerApp.current_conv_id
    current_branch_path,    \* ConversationAnalyzerApp.current_branch_path
    branch_paths,           \* ConversationAnalyzerApp.branch_paths
    filters,                \* the categories whose checkbox is ticked
    msg_text,               \* what _display_branch wrote last, or that it raised
    export_file             \* what _export_conversation wrote last, or that it raised

mergerVars == <<disk, hash_order, older_data, newer_data, older_count_var,
                newer_count_var, missing_conversations, sort_column,
                sort_reverse, summary_var, merged_file, messagebox,
                last_handler>>

classifierVars == <<msg, category>>
finderVars == <<mapping, empty_key, fb_pc, stack, branches>>

previewVars == <<pv_path, preview>>
indexVars == <<indexes, cur_index>>
searchVars == <<query_str, scope, outcome>>
sessionVars == <<threads, after_queue, status_var, error_dialogs, conv_tree>>
extractVars == <<ex_content, extracted>>
viewerVars == <<current_conv_id, current_branch_path, branch_paths, filters, msg_text,
                export_file>>
analyzerVars == <<previewVars, indexVars, searchVars, sessionVars, extractVars, viewerVars>>

vars == <<mergerVars, classifierVars, finderVars, analyzerVars>>

---------------------------------------------------------------------------
(* Bounds of the model *)
MaxTime == 1        \* update_time / create_time values are 0..MaxTime
MaxNodes == 1       \* a mapping holds 1..MaxNodes nodes (or is absent)

Ids == {"a", "b"}   \* conversation ids in the export files
IdOrders == {<<"a", "b">>, <<"b", "a">>}

---------------------------------------------------------------------------
(* JSON values *)
Absent == <<"absent">>          \* the key is not in the object
None == <<"null">>              \* JSON null, Python None
Num(n) == <<"num", n>>
Str(s) == <<"str", s>>
Map(n) == <<"map", n>>          \* an object with n keys (a mapping of n nodes)

IsNum(v) == v[1] = "num"

\* dict.get(key, default): the default only replaces an absent key
Get(v, default) == IF v = Absent THEN default ELSE v

\* len() of a mapping object
LenMap(m) == m[2]

\* Python truthiness of a timestamp value ("not ts", "x or 0")
Truthy(v) == CASE v = None -> FALSE
               [] v = Absent -> FALSE
               [] IsNum(v) -> v[2] # 0
               [] OTHER -> TRUE

Conv(id, title, ct, ut, m) ==
    [conversation_id |-> id, title |-> title, create_time |-> ct,
     update_time |-> ut, mapping |-> m]

---------------------------------------------------------------------------
(* dict[str, dict]: a sequence of conversations with distinct ids, in
   insertion order *)
Keys(d) == {d[i].conversation_id[2] : i \in 1..Len(d)}

Lookup(d, cid) == d[CHOOSE i \in 1..Len(d) : d[i].conversation_id = Str(cid)]

\* d[key] = conv: replaces in place when the key exists, else appends
Put(d, conv) ==
    IF conv.conversation_id[2] \in Keys(d)
    THEN [i \in 1..Len(d) |->
            IF d[i].conversation_id = conv.conversation_id THEN conv ELSE d[i]]
    ELSE Append(d, conv)

RECURSIVE DictFromList(_)
\* {conv['conversation_id']: conv for conv in data}
DictFromList(data) ==
    IF data = <<>> THEN <<>>
    ELSE Put(DictFromList(SubSeq(data, 1, Len(data) - 1)), data[Len(data)])

\* conv['conversation_id'] raises KeyError when some conversation has no id
LoadRaises(data) == \E i \in 1..Len(data) : data[i].conversation_id = Absent

NoData == [is_none |-> TRUE, dict |-> <<>>]
Loaded(d) == [is_none |-> FALSE, dict |-> d]

\* iteration over a set of ids follows the process's hash order
SetIter(S) == SelectSeq(hash_order, LAMBDA x : x \in S)

---------------------------------------------------------------------------
(* list.sort(key=..., reverse=True) on <<key, item>> pairs with numeric keys:
   stable, so equal keys keep their original order *)
KeyGe(k1, k2) == k1[2] >= k2[2]

InsertDesc(sorted, p) ==
    LET n == Cardinality({i \in 1..Len(sorted) : KeyGe(sorted[i][1], p[1])})
    IN  SubSeq(sorted, 1, n) \o <<p>> \o SubSeq(sorted, n + 1, Len(sorted))

RECURSIVE SortDesc(_)
SortDesc(pairs) ==
    IF pairs = <<>> THEN <<>>
    ELSE InsertDesc(SortDesc(SubSeq(pairs, 1, Len(pairs) - 1)), pairs[Len(pairs)])

\* comparing None with anything raises TypeError; a list of fewer than two
\* items is sorted without any comparison
SortRaises(keys) == Len(keys) >= 2 /\ \E i \in 1..Len(keys) : keys[i] = None

Items(pairs) == [i \in 1..Len(pairs) |-> pairs[i][2]]

---------------------------------------------------------------------------
\* mutant: the handler drops the archive it worked on
Discarded(data) == [is_none |-> TRUE, dict |-> <<>>]

\* self.older_data or self.newer_data after _compare_files or _merge_files:
\* both handlers only read it (keys(), get(), [cid]) and assign no attribute
Untouched(data) == data

(* ForestMergerApp._load_file *)
LoadFile(which) ==
    LET data == disk[which] IN
    /\ IF LoadRaises(data)
       THEN /\ UNCHANGED <<older_data, newer_data>>
            /\ older_count_var' = IF which = "older" THEN Str("(error)") ELSE older_count_var
            /\ newer_count_var' = IF which = "newer" THEN Str("(error)") ELSE newer_count_var
            /\ messagebox' = "showerror: Failed to load file"
       ELSE LET conversations == DictFromList(data) IN
            /\ older_data' = IF which = "older" THEN Loaded(conversations) ELSE older_data
            /\ newer_data' = IF which = "newer" THEN Loaded(conversations) ELSE newer_data
            /\ older_count_var' = IF which = "older" THEN Num(Len(conversations)) ELSE older_count_var
            /\ newer_count_var' = IF which = "newer" THEN Num(Len(conversations)) ELSE newer_count_var
            /\ messagebox' = "none"
    /\ last_handler' = "_load_file"
    /\ UNCHANGED <<classifierVars, finderVars, analyzerVars>>
    /\ UNCHANGED <<disk, hash_order, missing_conversations, sort_column,
                   sort_reverse, summary_var, merged_file>>

BrowseOlder == LoadFile("older")
BrowseNewer == LoadFile("newer")

---------------------------------------------------------------------------
(* ForestMergerApp._format_timestamp: "" for a falsy timestamp, else the
   formatted date of that timestamp *)
FormatTimestamp(ts) == IF ~Truthy(ts) THEN Str("") ELSE <<"date", ts[2]>>

\* the locals of _compare_files
OlderIds(older, newer) == Keys(older)
NewerIds(older, newer) == Keys(newer)
MissingIds(older, newer) == OlderIds(older, newer) \ NewerIds(older, newer)
CommonIds(older, newer) == OlderIds(older, newer) \cap NewerIds(older, newer)
\* mutant: counts every id of newer as new
NewInNewerAll(older, newer) == NewerIds(older, newer)

NewInNewer(older, newer) == NewerIds(older, newer) \ OlderIds(older, newer)

\* mutant: the node count read from a key the conversation does not have
MissingEntryWrongKey(older, cid) ==
    LET conv == Lookup(older, cid)
        create_time == Get(conv.create_time, Num(0))
        update_time == Get(conv.update_time, Num(0))
    IN  [conversation_id |-> cid,
         title |-> Get(conv.title, Str("Untitled")),
         nodes |-> LenMap(Map(0)),
         create_time |-> create_time,
         update_time |-> update_time,
         created_str |-> FormatTimestamp(create_time),
         modified_str |-> FormatTimestamp(update_time)]

\* the dict appended to missing_conversations for one missing id
MissingEntry(older, cid) ==
    LET conv == Lookup(older, cid)
        create_time == Get(conv.create_time, Num(0))
        update_time == Get(conv.update_time, Num(0))
    IN  [conversation_id |-> cid,
         title |-> Get(conv.title, Str("Untitled")),
         nodes |-> LenMap(Get(conv.mapping, Map(0))),
         create_time |-> create_time,
         update_time |-> update_time,
         created_str |-> FormatTimestamp(create_time),
         modified_str |-> FormatTimestamp(update_time)]

\* _sort_conversations with the constructor's sort_column "nodes" and
\* sort_reverse True (the column-header handler is not modelled)
SortConversations(entries) ==
    Items(SortDesc([i \in 1..Len(entries) |-> <<Num(entries[i].nodes), entries[i]>>]))

CompareFiles ==
    /\ IF older_data.is_none \/ newer_data.is_none
       THEN /\ messagebox' = "showwarning: Missing Files"
            /\ UNCHANGED <<missing_conversations, summary_var>>
       ELSE LET older == older_data.dict
                newer == newer_data.dict
                order == SetIter(MissingIds(older, newer))
                entries == [i \in 1..Len(order) |-> MissingEntry(older, order[i])]
            IN  /\ missing_conversations' = SortConversations(entries)
                /\ summary_var' =
                     [missing |-> Len(entries),
                      common |-> Cardinality(CommonIds(older, newer)),
                      new_in_newer |-> Cardinality(NewInNewer(older, newer)),
                      total |-> Cardinality(OlderIds(older, newer) \cup NewerIds(older, newer))]
                /\ messagebox' = "none"
    /\ last_handler' = "_compare_files"
    /\ older_data' = Untouched(older_data)
    /\ newer_data' = Untouched(newer_data)
    /\ UNCHANGED <<classifierVars, finderVars, analyzerVars>>
    /\ UNCHANGED <<disk, hash_order, older_count_var,
                   newer_count_var, sort_column, sort_reverse, merged_file>>

---------------------------------------------------------------------------
(* ForestMergerApp._merge_files *)
MappingSize(conv) == LenMap(Get(conv.mapping, Map(0)))

\* mutant: a tie goes to newer
PickLargerStrict(older_conv, newer_conv) ==
    IF MappingSize(older_conv) > MappingSize(newer_conv) THEN older_conv ELSE newer_conv

\* "Both exist - use larger one"
PickLarger(older_conv, newer_conv) ==
    IF MappingSize(older_conv) >= MappingSize(newer_conv) THEN older_conv ELSE newer_conv

MergedConv(older, newer, cid) ==
    IF cid \notin Keys(older) THEN Lookup(newer, cid)
    ELSE IF cid \notin Keys(newer) THEN Lookup(older, cid)
    ELSE PickLarger(Lookup(older, cid), Lookup(newer, cid))

\* mutant: the loop runs over the ids of newer only
MergedValuesNewerOnly(older, newer) ==
    LET all_ids == SetIter(Keys(newer))
    IN  [i \in 1..Len(all_ids) |-> MergedConv(older, newer, all_ids[i])]

\* merged.values() after the loop over all_ids
MergedValues(older, newer) ==
    LET all_ids == SetIter(Keys(older) \cup Keys(newer))
    IN  [i \in 1..Len(all_ids) |-> MergedConv(older, newer, all_ids[i])]

\* key=lambda x: x.get('update_time', 0)
UpdateTimeKey(conv) == Get(conv.update_time, Num(0))

MergeKeys(result) == [i \in 1..Len(result) |-> UpdateTimeKey(result[i])]

\* mutant: reverse=True forgotten, the sort is ascending
SortByUpdateTimeAscending(result) ==
    LET desc == Items(SortDesc([i \in 1..Len(result) |-> <<UpdateTimeKey(result[i]), result[i]>>]))
    IN  [i \in 1..Len(desc) |-> desc[Len(desc) + 1 - i]]

\* result.sort(key=..., reverse=True), when no comparison raises
SortByUpdateTime(result) ==
    Items(SortDesc([i \in 1..Len(result) |-> <<UpdateTimeKey(result[i]), result[i]>>]))

NoFile == [written |-> FALSE, convs |-> <<>>]
Written(result) == [written |-> TRUE, convs |-> result]

MergeFiles(path_chosen) ==
    /\ IF older_data.is_none \/ newer_data.is_none
       THEN /\ messagebox' = "showwarning: Missing Files"
            /\ UNCHANGED merged_file
       ELSE IF ~path_chosen
       THEN /\ messagebox' = "none"
            /\ UNCHANGED merged_file
       ELSE LET result == MergedValues(older_data.dict, newer_data.dict) IN
            IF SortRaises(MergeKeys(result))
            THEN /\ messagebox' = "showerror: Failed to merge"
                 /\ UNCHANGED merged_file
            ELSE /\ merged_file' = Written(SortByUpdateTime(result))
                 /\ messagebox' = "showinfo: Merged"
    /\ last_handler' = "_merge_files"
    /\ older_data' = Untouched(older_data)
    /\ newer_data' = Untouched(newer_data)
    /\ UNCHANGED <<classifierVars, finderVars, analyzerVars>>
    /\ UNCHANGED <<disk, hash_order, older_count_var,
                   newer_count_var, missing_conversations, sort_column,
                   sort_reverse, summary_var>>

MergeSave == MergeFiles(TRUE)
MergeCancel == MergeFiles(FALSE)

---------------------------------------------------------------------------
(* Export files the user can browse to *)
TimeValues == {Absent, None} \cup {Num(t) : t \in 0..MaxTime}
MappingValues == {Absent} \cup {Map(n) : n \in 1..MaxNodes}

\* conversations that differ in update_time and mapping size
MergePool(id) ==
    {Conv(Str(id), Absent, Absent, ut, m) : ut \in TimeValues, m \in MappingValues}

\* a file holds at most one conversation per id, in the order a, b
FilesOf(pool_a, pool_b) ==
    {x \o y : x \in {<<>>} \cup {<<c>> : c \in pool_a},
              y \in {<<>>} \cup {<<c>> : c \in pool_b}}

\* a file whose array repeats an id, and one with a conversation without id
DuplicateFile ==
    <<Conv(Str("a"), Absent, Absent, Num(1), Map(1)),
      Conv(Str("b"), Absent, Absent, Num(0), Absent),
      Conv(Str("a"), Absent, Absent, Num(0), Absent)>>
MalformedFile == <<Conv(Absent, Absent, Absent, Num(1), Map(1))>>

MergeFilePool == FilesOf(MergePool("a"), MergePool("b")) \cup {DuplicateFile, MalformedFile}

MergerInit(FilePool) ==
    /\ disk \in [older : FilePool, newer : FilePool]
    /\ hash_order \in IdOrders
    /\ older_data = NoData
    /\ newer_data = NoData
    /\ older_count_var = Str("")
    /\ newer_count_var = Str("")
    /\ missing_conversations = <<>>
    /\ sort_column = "nodes"
    /\ sort_reverse = TRUE
    /\ summary_var = [missing |-> 0, common |-> 0, new_in_newer |-> 0, total |-> 0]
    /\ merged_file = NoFile
    /\ messagebox = "none"
    /\ last_handler = "__init__"

MergerNext ==
    \/ BrowseOlder
    \/ BrowseNewer
    \/ CompareFiles
    \/ MergeSave
    \/ MergeCancel

\* the parts of the program a specification does not exercise stay idle
NoMerger ==
    /\ disk = [older |-> <<>>, newer |-> <<>>]
    /\ hash_order = <<"a", "b">>
    /\ older_data = NoData
    /\ newer_data = NoData
    /\ older_count_var = Str("")
    /\ newer_count_var = Str("")
    /\ missing_conversations = <<>>
    /\ sort_column = "nodes"
    /\ sort_reverse = TRUE
    /\ summary_var = [missing |-> 0, common |-> 0, new_in_newer |-> 0, total |-> 0]
    /\ merged_file = NoFile
    /\ messagebox = "none"
    /\ last_handler = "__init__"

NoClassifier == msg = None /\ category = "pending"
NoPreview == pv_path = <<>> /\ preview = None
NoSearch == query_str = <<>> /\ scope = None /\ outcome = None
NoIndex == indexes = <<>> /\ cur_index = 0
NoSession ==
    /\ threads = <<>>
    /\ after_queue = <<>>
    /\ status_var = <<"Open a conversations.json file to begin.">>
    /\ error_dialogs = 0
    /\ conv_tree = {}
NoExtract == ex_content = Absent /\ extracted = None
\* the constructor's attributes and the ticked checkboxes of _create_widgets
NoViewer ==
    /\ current_conv_id = None
    /\ current_branch_path = <<>>
    /\ branch_paths = <<>>
    /\ filters = {"user", "assistant"}
    /\ msg_text = None
    /\ export_file = None
NoAnalyzer == NoPreview /\ NoIndex /\ NoSearch /\ NoSession /\ NoExtract /\ NoViewer
NoFinder ==
    /\ mapping = <<>>
    /\ empty_key = 0
    /\ fb_pc = "idle"
    /\ stack = <<>>
    /\ branches = <<>>

InitMerge == MergerInit(MergeFilePool) /\ NoClassifier /\ NoFinder /\ NoAnalyzer
SpecMerge == InitMerge /\ [][MergerNext]_vars

\* conversations that differ in title, create_time and mapping size
ComparePool(id) ==
    {Conv(Str(id), title, ct, Num(MaxTime), m) :
        title \in {Absent, Str("T")}, ct \in {Absent, Num(MaxTime)}, m \in MappingValues}

CompareFilePool == FilesOf(ComparePool("a"), ComparePool("b")) \cup {DuplicateFile, MalformedFile}

InitCompare == MergerInit(CompareFilePool) /\ NoClassifier /\ NoFinder /\ NoAnalyzer
SpecCompare == InitCompare /\ [][MergerNext]_vars

---------------------------------------------------------------------------
(* Messages: None, or an object with the keys author, content, metadata and
   create_time, each of which may be absent. author, content and metadata are
   objects; the model keeps the one key of each that the classifier reads. *)
Obj(fields) == <<"obj", fields>>
Fields(obj) == obj[2]
Msg(author, content, metadata, create_time) ==
    <<"msg", [author |-> author, content |-> content, metadata |-> metadata,
              create_time |-> create_time]>>

\* the {} defaults of msg.get('author', {}), msg.get('content', {}) and
\* msg.get('metadata', {})
EmptyAuthor == Obj([role |-> Absent])
EmptyContent == Obj([content_type |-> Absent])
EmptyMetadata == Obj([reasoning_status |-> Absent])

\* "not msg": None and the empty dict are falsy
MsgFalsy(m) ==
    \/ m = None
    \/ /\ m[2].author = Absent
       /\ m[2].content = Absent
       /\ m[2].metadata = Absent
       /\ m[2].create_time = Absent

\* mutant: the content-type checks run before the reasoning-status check
GetMessageCategoryTypeFirst(m) ==
    IF MsgFalsy(m) THEN "other"
    ELSE
    LET role == Get(Fields(Get(m[2].author, EmptyAuthor)).role, Str(""))
        content == Get(m[2].content, EmptyContent)
        content_type == Get(Fields(content).content_type, Str(""))
        metadata == Get(m[2].metadata, EmptyMetadata)
    IN  IF content_type = Str("tether_quote") THEN "web_citation"
        ELSE IF content_type = Str("system_error") THEN "error"
        ELSE IF content_type \in {Str("code"), Str("execution_output")} THEN "code"
        ELSE IF Get(Fields(metadata).reasoning_status, None)
                    \in {Str("is_reasoning"), Str("reasoning_ended")} THEN "reasoning"
        ELSE IF content_type = Str("thoughts") THEN "reasoning"
        ELSE IF content_type = Str("reasoning_recap") THEN "reasoning"
        ELSE IF role = Str("tool") THEN "tool"
        ELSE IF role = Str("system") THEN "system"
        ELSE IF role = Str("user") THEN "user"
        ELSE IF role = Str("assistant") THEN "assistant"
        ELSE "other"

(* get_message_category *)
GetMessageCategory(m) ==
    IF MsgFalsy(m) THEN "other"
    ELSE
    LET role == Get(Fields(Get(m[2].author, EmptyAuthor)).role, Str(""))
        content == Get(m[2].content, EmptyContent)
        content_type == Get(Fields(content).content_type, Str(""))
        metadata == Get(m[2].metadata, EmptyMetadata)
    IN  IF Get(Fields(metadata).reasoning_status, None)
                \in {Str("is_reasoning"), Str("reasoning_ended")} THEN "reasoning"
        ELSE IF content_type = Str("thoughts") THEN "reasoning"
        ELSE IF content_type = Str("reasoning_recap") THEN "reasoning"
        ELSE IF content_type = Str("tether_quote") THEN "web_citation"
        ELSE IF content_type = Str("system_error") THEN "error"
        ELSE IF content_type \in {Str("code"), Str("execution_output")} THEN "code"
        ELSE IF role = Str("tool") THEN "tool"
        ELSE IF role = Str("system") THEN "system"
        ELSE IF role = Str("user") THEN "user"
        ELSE IF role = Str("assistant") THEN "assistant"
        ELSE "other"

\* a caller classifies the message it holds (_should_show_message)
Categorize ==
    /\ category = "pending"
    /\ category' = GetMessageCategory(msg)
    /\ UNCHANGED <<msg, mergerVars, finderVars, analyzerVars>>

Roles == {"user", "assistant", "system", "tool", "critic"}
ContentTypes ==
    {"text", "multimodal_text", "code", "execution_output", "thoughts",
     "reasoning_recap", "tether_quote", "system_error",
     "tether_browsing_display", "user_editable_context", "app_pairing_content"}
ReasoningStatuses == {"is_reasoning", "reasoning_ended", "finished"}

AuthorValues == {Absent, EmptyAuthor} \cup {Obj([role |-> Str(r)]) : r \in Roles}
ContentValues ==
    {Absent, EmptyContent} \cup {Obj([content_type |-> Str(t)]) : t \in ContentTypes}
MetadataValues ==
    {Absent, EmptyMetadata} \cup {Obj([reasoning_status |-> Str(r)]) : r \in ReasoningStatuses}

MessagePool ==
    {None} \cup {Msg(a, c, md, ct) : a \in AuthorValues, c \in ContentValues,
                                     md \in MetadataValues, ct \in {Absent, Num(1)}}

ClassifierNext == Categorize

InitCategorize ==
    /\ msg \in MessagePool
    /\ category = "pending"
    /\ NoMerger
    /\ NoFinder
    /\ NoAnalyzer
SpecCategorize == InitCategorize /\ [][ClassifierNext]_vars

---------------------------------------------------------------------------
(* extract_text_from_content. A content object carries, next to content_type,
   the keys its type reads; a JSON array is List(seq), a JSON string Str(s).
   The extracted text is a string. *)
List(seq) == <<"list", seq>>
Elems(l) == l[2]

\* obj.get(k): Absent when the object has no such key
Field(obj, k) == IF k \in DOMAIN Fields(obj) THEN Fields(obj)[k] ELSE Absent

\* truthiness of a value that is a string or None
StrTruthy(v) == v # Absent /\ v # None /\ v # Str("")

RECURSIVE JoinStr(_, _)
\* sep.join(strs)
JoinStr(strs, sep) ==
    IF strs = <<>> THEN ""
    ELSE IF Len(strs) = 1 THEN strs[1]
    ELSE strs[1] \o sep \o JoinStr(Tail(strs), sep)

RECURSIVE FlatSeq(_)
\* the concatenation of a sequence of sequences
FlatSeq(seqs) == IF seqs = <<>> THEN <<>> ELSE Head(seqs) \o FlatSeq(Tail(seqs))

\* str(p) for p in parts if p
TextParts(parts) ==
    LET kept == SelectSeq(parts, StrTruthy)
    IN  [i \in 1..Len(kept) |-> kept[i][2]]

\* what one part of a multimodal_text message appends
MultimodalPart(part) ==
    IF part[1] = "str" THEN <<part[2]>>
    ELSE IF part[1] # "obj" THEN <<>>
    ELSE IF Field(part, "text") # Absent THEN <<Field(part, "text")[2]>>
    ELSE IF Field(part, "content_type") = Str("image_asset_pointer") THEN <<"[Image]">>
    ELSE IF Field(part, "content_type") = Str("audio_asset_pointer") THEN <<"[Audio]">>
    ELSE IF Field(part, "content_type") = Str("audio_transcription")
         THEN <<"[Audio Transcription]">>
    ELSE <<>>

\* mutant: the step's content goes before its summary
ThoughtPartsContentFirst(thought) ==
    LET summary == Get(Field(thought, "summary"), Str(""))
        thought_content == Get(Field(thought, "content"), Str(""))
    IN  (IF StrTruthy(thought_content) THEN <<thought_content[2]>> ELSE <<>>)
        \o (IF StrTruthy(summary) THEN <<"[" \o summary[2] \o "]">> ELSE <<>>)

\* what one step of a thoughts message appends
ThoughtParts(thought) ==
    LET summary == Get(Field(thought, "summary"), Str(""))
        thought_content == Get(Field(thought, "content"), Str(""))
    IN  (IF StrTruthy(summary) THEN <<"[" \o summary[2] \o "]">> ELSE <<>>)
        \o (IF StrTruthy(thought_content) THEN <<thought_content[2]>> ELSE <<>>)

ExtractTextFromContent(content) ==
    LET content_type == Field(content, "content_type")
        text == Get(Field(content, "text"), Str(""))
    IN  CASE content_type = Str("text") ->
               JoinStr(TextParts(Elems(Get(Field(content, "parts"), List(<<>>)))), " ")
          [] content_type = Str("multimodal_text") ->
               LET parts == Elems(Get(Field(content, "parts"), List(<<>>)))
               IN  JoinStr(FlatSeq([i \in 1..Len(parts) |-> MultimodalPart(parts[i])]), " ")
          [] content_type = Str("code") ->
               IF StrTruthy(text) THEN text[2] ELSE "[Code]"
          [] content_type = Str("execution_output") ->
               IF StrTruthy(text) THEN "[Output]: " \o text[2] ELSE "[Execution Output]"
          [] content_type = Str("thoughts") ->
               LET thoughts == Get(Field(content, "thoughts"), List(<<>>))
                   parts == FlatSeq([i \in 1..Len(Elems(thoughts)) |->
                                        ThoughtParts(Elems(thoughts)[i])])
               IN  IF thoughts = None \/ Elems(thoughts) = <<>> THEN ""
                   ELSE IF parts # <<>> THEN JoinStr(parts, "\n")
                   ELSE "[Thinking...]"
          [] content_type = Str("reasoning_recap") ->
               LET recap == Get(Field(content, "content"), Str(""))
               IN  IF StrTruthy(recap) THEN "[" \o recap[2] \o "]" ELSE ""
          [] content_type = Str("tether_quote") ->
               LET domain == Get(Field(content, "domain"), Str(""))
                   title == Get(Field(content, "title"), Str(""))
                   url == Get(Field(content, "url"), Str(""))
                   shown == IF StrTruthy(title) THEN title
                            ELSE IF StrTruthy(domain) THEN domain ELSE url
                   header == IF StrTruthy(title) \/ StrTruthy(domain) \/ StrTruthy(url)
                             THEN "[Citation: " \o shown[2] \o "]" ELSE "[Citation]"
               IN  IF StrTruthy(text) THEN header \o "\n" \o text[2] ELSE header
          [] content_type = Str("system_error") ->
               LET name == Get(Field(content, "name"), Str("Error"))
               IN  IF StrTruthy(text) THEN "[Error: " \o name[2] \o "] " \o text[2]
                   ELSE "[Error: " \o name[2] \o "]"
          [] OTHER -> ""

---------------------------------------------------------------------------
(* Mappings: a sequence of nodes in the iteration order of the dict; node ids
   are the positions 1..Len(mapping), so the node at position 1 is the first
   one mapping.items() yields. A node holds its parent (None or a node id) and
   its children, a sequence of node ids. *)
Id(n) == <<"id", n>>
Node(parent, children) == [parent |-> parent, children |-> children]

HasKey(m, node_id) == node_id \in 1..Len(m)

\* mutant: only the first child of a node is followed
ChildrenOfFirstOnly(m, node_id) ==
    IF HasKey(m, node_id) /\ m[node_id].children # <<>>
    THEN <<m[node_id].children[1]>> ELSE <<>>

\* mapping.get(node_id, {}).get('children', [])
ChildrenOf(m, node_id) == IF HasKey(m, node_id) THEN m[node_id].children ELSE <<>>

\* the loop that finds the root: the first node whose parent is None
Roots(m) == {i \in 1..Len(m) : m[i].parent = None}
FindRoot(m) == IF Roots(m) = {} THEN None
               ELSE Id(CHOOSE i \in Roots(m) : \A j \in Roots(m) : i <= j)

\* "if not root_id": no root was found, or the root's key is the empty string
NotRootId(root_id) == root_id = None \/ root_id[2] = empty_key

\* mutant: the node id goes in front of the path
CurrentPathPrepended(path, node_id) == <<node_id>> \o path

\* current_path = path + [node_id]
CurrentPath(path, node_id) == Append(path, node_id)

\* mutant: the entry taken off the stack is the oldest one
PopIndexOldest(stk) == 1

\* stack.pop() takes the last entry
PopIndex(stk) == Len(stk)

\* mutant: the children are pushed in their declared order
PushChildrenInOrder(stk, children, current_path) ==
    stk \o [i \in 1..Len(children) |-> <<children[i], current_path>>]

\* for child_id in reversed(children): stack.append((child_id, current_path))
PushChildren(stk, children, current_path) ==
    stk \o [i \in 1..Len(children) |->
              <<children[Len(children) + 1 - i], current_path>>]

Remove(stk, k) == SubSeq(stk, 1, k - 1) \o SubSeq(stk, k + 1, Len(stk))

(* _find_all_branches, up to the first test of the while loop *)
FindBegin ==
    /\ fb_pc = "call"
    /\ IF NotRootId(FindRoot(mapping))
       THEN /\ fb_pc' = "returned"
            /\ branches' = <<>>
            /\ UNCHANGED stack
       ELSE /\ fb_pc' = "while"
            /\ branches' = <<>>
            /\ stack' = <<<<FindRoot(mapping)[2], <<>>>>>>
    /\ UNCHANGED <<mapping, empty_key, mergerVars, classifierVars, analyzerVars>>

(* one iteration of the while loop *)
FindIterate ==
    /\ fb_pc = "while"
    /\ stack # <<>>
    \* a path is followed up to one id more than the mapping has nodes: a
    \* longer one goes round a cycle again
    /\ Len(stack[PopIndex(stack)][2]) <= Len(mapping)
    /\ LET k == PopIndex(stack)
           node_id == stack[k][1]
           path == stack[k][2]
           current_path == CurrentPath(path, node_id)
           children == ChildrenOf(mapping, node_id)
       IN  IF children = <<>>
           THEN /\ branches' = Append(branches, current_path)
                /\ stack' = Remove(stack, k)
           ELSE /\ stack' = PushChildren(Remove(stack, k), children, current_path)
                /\ UNCHANGED branches
    /\ UNCHANGED <<fb_pc, mapping, empty_key, mergerVars, classifierVars, analyzerVars>>

(* the loop ends on an empty stack and branches is returned *)
FindReturn ==
    /\ fb_pc = "while"
    /\ stack = <<>>
    /\ fb_pc' = "returned"
    /\ UNCHANGED <<stack, branches, mapping, empty_key, mergerVars, classifierVars, analyzerVars>>

FinderNext == FindBegin \/ FindIterate \/ FindReturn

---------------------------------------------------------------------------
(* Conversations whose children and parent fields agree: every node is listed
   once, in the children of its parent. Every labelling is drawn, so the root
   and the children stand at every position of the iteration order. *)
MaxTreeNodes == 4   \* a mapping holds up to MaxTreeNodes nodes

\* the sequences that list every element of S once
Listings(S) ==
    {s \in [1..Cardinality(S) -> S] :
        \A i, j \in 1..Cardinality(S) : i # j => s[i] # s[j]}

\* parent_of[i] = 0 stands for a node without parent
ParentChoices(n) == {f \in [1..n -> 0..n] : \A i \in 1..n : f[i] # i}

RECURSIVE NodesUpTo(_, _, _)
\* the nodes 1..k of the mappings with these parents: each node lists its
\* children in one of their orders
NodesUpTo(n, parent_of, k) ==
    IF k = 0 THEN {<<>>}
    ELSE {Append(nodes, Node(IF parent_of[k] = 0 THEN None ELSE Id(parent_of[k]), c)) :
             nodes \in NodesUpTo(n, parent_of, k - 1),
             c \in Listings({j \in 1..n : parent_of[j] = k})}

Forests(n) == UNION {NodesUpTo(n, parent_of, n) : parent_of \in ParentChoices(n)}

ForestPool == UNION {Forests(n) : n \in 0..MaxTreeNodes}

InitForest ==
    /\ mapping \in ForestPool
    /\ empty_key = 0
    /\ fb_pc = "call"
    /\ stack = <<>>
    /\ branches = <<>>
    /\ NoMerger
    /\ NoClassifier
    /\ NoAnalyzer
SpecForest == InitForest /\ [][FinderNext]_vars

\* _count_branches: the nodes without children, in the whole mapping
CountBranches(m) ==
    LET leaves == Cardinality({i \in 1..Len(m) : m[i].children = <<>>})
    IN  IF leaves >= 1 THEN leaves ELSE 1

(* Mappings as a damaged export may hold them: parent and children need not
   agree, a child may be listed by several nodes or lead back to an ancestor,
   and the id Len(mapping) + 1 is the key of no node. *)
MaxGraphNodes == 2  \* such a mapping holds up to MaxGraphNodes nodes

ChildLists(n) ==
    {<<>>} \cup {<<c>> : c \in 1..(n + 1)}
           \cup {s \in {<<c, d>> : c \in 1..(n + 1), d \in 1..(n + 1)} : s[1] # s[2]}

Graphs(n) ==
    [1..n -> {Node(p, c) : p \in {None} \cup {Id(i) : i \in 1..n}, c \in ChildLists(n)}]

GraphPool == UNION {Graphs(n) : n \in 0..MaxGraphNodes}

InitGraphs ==
    /\ mapping \in GraphPool
    /\ empty_key = 0
    /\ fb_pc = "call"
    /\ stack = <<>>
    /\ branches = <<>>
    /\ NoMerger
    /\ NoClassifier
    /\ NoAnalyzer
SpecGraphs == InitGraphs /\ [][FinderNext]_vars

\* the same mappings, with any one key, or none, being the empty string
InitRoots ==
    /\ mapping \in ForestPool
    /\ empty_key \in 0..Len(mapping)
    /\ fb_pc = "call"
    /\ stack = <<>>
    /\ branches = <<>>
    /\ NoMerger
    /\ NoClassifier
    /\ NoAnalyzer
SpecRoots == InitRoots /\ [][FinderNext]_vars

---------------------------------------------------------------------------
(* ConversationAnalyzerApp._get_branch_preview. pv_path holds, for each node
   id of the path in order, mapping.get(node_id, {}).get('message'): None, or
   the message object. *)
PreviewLimit == 60

\* msg.get('author', {}).get('role', '')
RoleOf(m) == Get(Field(Get(m[2].author, EmptyAuthor), "role"), Str(""))

\* mutant: a text of exactly PreviewLimit characters gets the ellipsis too
TruncateInclusive(text) ==
    IF Len(text) >= PreviewLimit THEN SubSeq(text, 1, PreviewLimit) \o "..." ELSE text

\* text[:60] + "..." if len(text) > 60 else text
Truncate(text) ==
    IF Len(text) > PreviewLimit THEN SubSeq(text, 1, PreviewLimit) \o "..." ELSE text

RECURSIVE GetBranchPreview(_)
GetBranchPreview(msgs) ==
    IF msgs = <<>> THEN "(empty)"
    ELSE LET m == Head(msgs) IN
         IF /\ ~MsgFalsy(m)
            /\ RoleOf(m) = Str("assistant")
            /\ ExtractTextFromContent(Get(m[2].content, EmptyContent)) # ""
         THEN Truncate(ExtractTextFromContent(Get(m[2].content, EmptyContent)))
         ELSE GetBranchPreview(Tail(msgs))

\* _load_conversation asks for the preview of one branch
PreviewBranch ==
    /\ preview = None
    /\ preview' = Str(GetBranchPreview(pv_path))
    /\ UNCHANGED <<extractVars, viewerVars>>
    /\ UNCHANGED <<pv_path, mergerVars, classifierVars, finderVars, indexVars, searchVars,
                   sessionVars>>

PreviewNext == PreviewBranch

MaxPath == 2        \* a previewed path holds up to MaxPath nodes

RECURSIVE Rep(_, _)
\* the string of n characters c
Rep(c, n) == IF n = 0 THEN "" ELSE c \o Rep(c, n - 1)

TextContent(t) == Obj([content_type |-> Str("text"), parts |-> List(<<Str(t)>>)])

PreviewContents ==
    {Absent,
     Obj([content_type |-> Str("thoughts"), thoughts |-> List(<<>>)]),
     Obj([content_type |-> Str("code")])}
    \cup {TextContent(t) : t \in {"", "hi", Rep("a", PreviewLimit), Rep("b", PreviewLimit + 1)}}

PreviewMessages ==
    {None} \cup {Msg(Obj([role |-> Str(r)]), c, Absent, Absent) :
                    r \in {"assistant", "user"}, c \in PreviewContents}

PathsUpTo(n) == UNION {[1..k -> PreviewMessages] : k \in 0..n}

InitPreview ==
    /\ NoExtract
    /\ NoViewer
    /\ pv_path \in PathsUpTo(MaxPath)
    /\ preview = None
    /\ NoMerger
    /\ NoClassifier
    /\ NoFinder
    /\ NoIndex
    /\ NoSearch
    /\ NoSession
SpecPreview == InitPreview /\ [][PreviewNext]_vars

---------------------------------------------------------------------------
(* extract_text_from_content called on a thoughts content *)
ExtractText ==
    /\ extracted = None
    /\ extracted' = Str(ExtractTextFromContent(ex_content))
    /\ UNCHANGED <<ex_content, viewerVars, previewVars, indexVars, searchVars, sessionVars>>
    /\ UNCHANGED <<mergerVars, classifierVars, finderVars>>

ExtractNext == ExtractText

MaxSteps == 2       \* a thoughts content holds up to MaxSteps steps

Steps ==
    {Obj([summary |-> a, content |-> b]) :
        a \in {Absent, Str(""), Str("s"), Str("t")},
        b \in {Absent, Str(""), Str("c"), Str("d")}}

ThoughtsContents ==
    {Obj([content_type |-> Str("thoughts"), thoughts |-> t]) :
        t \in {Absent, None} \cup {List(l) : l \in UNION {[1..k -> Steps] : k \in 0..MaxSteps}}}

InitExtract ==
    /\ ex_content \in ThoughtsContents
    /\ extracted = None
    /\ NoViewer
    /\ NoPreview
    /\ NoIndex
    /\ NoSearch
    /\ NoSession
    /\ NoMerger
    /\ NoClassifier
    /\ NoFinder
SpecExtract == InitExtract /\ [][ExtractNext]_vars

---------------------------------------------------------------------------
(* ConversationIndex.search and search_in_conversation. A query string is the
   sequence of its lexemes: words, "(", ")", the operators OR and AND, the
   double quote, and the field prefix conv_id: that search_in_conversation
   writes. parse_query follows the query syntax of the search library: terms,
   quoted phrases, field:phrase, parentheses, AND binding tighter than OR,
   adjacent clauses as alternatives; it raises on a string it cannot parse.
   A document is what load_conversations hands to add_document; its text and
   title are sequences of tokens. *)
Quote == "\""
Operators == {"(", ")", "OR", "AND", Quote, "conv_id:"}

Doc(conv_id, node_id, title, role, text) ==
    [conv_id |-> conv_id, node_id |-> node_id, title |-> title, role |-> role,
     text |-> text]

\* the tokens of the characters between two quotes: words in lower case,
\* punctuation dropped
PhraseToken(lexeme) ==
    CASE lexeme = "OR" -> <<"or">>
      [] lexeme = "AND" -> <<"and">>
      [] lexeme = "conv_id:" -> <<"conv_id">>
      [] lexeme \in {"(", ")"} -> <<>>
      [] OTHER -> <<lexeme>>
PhraseTokens(lexemes) == FlatSeq([i \in 1..Len(lexemes) |-> PhraseToken(lexemes[i])])

\* the position of the first quote in lexemes, 0 when there is none
FirstQuote(lexemes) ==
    IF \A i \in 1..Len(lexemes) : lexemes[i] # Quote THEN 0
    ELSE CHOOSE i \in 1..Len(lexemes) :
            lexemes[i] = Quote /\ \A j \in 1..(i - 1) : lexemes[j] # Quote

ParseFail == [ok |-> FALSE, ast |-> <<"none">>, rest |-> <<>>]
Parsed(ast, rest) == [ok |-> TRUE, ast |-> ast, rest |-> rest]

\* a phrase on `field`, the lexemes starting right after its opening quote
ParsePhrase(field, lexemes) ==
    LET k == FirstQuote(lexemes)
    IN  IF k = 0 THEN ParseFail
        ELSE Parsed(<<"phrase", field, PhraseTokens(SubSeq(lexemes, 1, k - 1))>>,
                    SubSeq(lexemes, k + 1, Len(lexemes)))

RECURSIVE ParseOr(_)
RECURSIVE ParseOrTail(_, _)
RECURSIVE ParseAndTail(_, _)

\* the parenthesis opened before r was parsed has to close
CloseParen(r) ==
    IF r.ok /\ r.rest # <<>> /\ r.rest[1] = ")"
    THEN Parsed(r.ast, Tail(r.rest)) ELSE ParseFail

ParseUnit(t) ==
    IF t = <<>> THEN ParseFail
    ELSE CASE t[1] = "(" -> CloseParen(ParseOr(Tail(t)))
           [] t[1] = Quote -> ParsePhrase("default", Tail(t))
           [] t[1] = "conv_id:" ->
                IF Len(t) < 2 \/ t[2] \in Operators \ {Quote} THEN ParseFail
                ELSE IF t[2] = Quote THEN ParsePhrase("conv_id", SubSeq(t, 3, Len(t)))
                ELSE Parsed(<<"phrase", "conv_id", <<t[2]>>>>, SubSeq(t, 3, Len(t)))
           [] t[1] \in {")", "OR", "AND"} -> ParseFail
           [] OTHER -> Parsed(<<"phrase", "default", <<t[1]>>>>, Tail(t))

\* left AND u, and the clauses that follow
AndWith(left, u) ==
    IF u.ok THEN ParseAndTail(<<"and", left, u.ast>>, u.rest) ELSE ParseFail

ParseAndTail(left, t) ==
    IF t # <<>> /\ t[1] = "AND" THEN AndWith(left, ParseUnit(Tail(t)))
    ELSE Parsed(left, t)

ParseAndFrom(u) == IF u.ok THEN ParseAndTail(u.ast, u.rest) ELSE ParseFail
ParseAnd(t) == ParseAndFrom(ParseUnit(t))

\* left OR a, and the clauses that follow
OrWith(left, a) ==
    IF a.ok THEN ParseOrTail(<<"or", left, a.ast>>, a.rest) ELSE ParseFail

ParseOrTail(left, t) ==
    IF t = <<>> \/ t[1] = ")" THEN Parsed(left, t)
    ELSE OrWith(left, ParseAnd(IF t[1] = "OR" THEN Tail(t) ELSE t))

ParseOrFrom(a) == IF a.ok THEN ParseOrTail(a.ast, a.rest) ELSE ParseFail
ParseOr(t) == ParseOrFrom(ParseAnd(t))

\* the whole string has to be used up
WholeString(r) == IF r.ok /\ r.rest = <<>> THEN r ELSE ParseFail

\* index.parse_query(query_str, ["text", "title"])
ParseQuery(t) == WholeString(ParseOr(t))

\* tokens occurs as a run of consecutive tokens of field_tokens
HasPhrase(field_tokens, tokens) ==
    /\ tokens # <<>>
    /\ \E i \in 0..(Len(field_tokens) - Len(tokens)) :
          \A j \in 1..Len(tokens) : field_tokens[i + j] = tokens[j]

RECURSIVE Matches(_, _)
Matches(ast, doc) ==
    CASE ast[1] = "and" -> Matches(ast[2], doc) /\ Matches(ast[3], doc)
      [] ast[1] = "or" -> Matches(ast[2], doc) \/ Matches(ast[3], doc)
      [] ast[1] = "phrase" ->
           IF ast[2] = "conv_id" THEN HasPhrase(<<doc.conv_id>>, ast[3])
           ELSE HasPhrase(doc.text, ast[3]) \/ HasPhrase(doc.title, ast[3])

Hits(docs) == <<"hits", docs>>
Raised == <<"raise", "parse_query">>

\* searcher.search(query, limit): fewer documents are indexed than any limit
\* the callers pass
SearcherSearch(docs, query) == Hits({d \in docs : Matches(query.ast, d)})

\* try: parse_query(first) except: parse_query(retry); then search
SearchParsed(docs, first, retry) ==
    IF first.ok THEN SearcherSearch(docs, first)
    ELSE IF retry.ok THEN SearcherSearch(docs, retry)
    ELSE Raised

\* mutant: no retry, the first parse failure is raised
SearchNoRetry(docs, q) ==
    IF q = <<>> THEN Hits({})
    ELSE SearchParsed(docs, ParseQuery(q), ParseFail)

\* ConversationIndex.search on an index whose committed documents are docs; a
\* hit is listed by the document it was read from
Search(docs, q) ==
    IF q = <<>> THEN Hits({})
    ELSE SearchParsed(docs, ParseQuery(q), ParseQuery(<<Quote>> \o q \o <<Quote>>))

\* f'conv_id:"{conv_id}" AND ({query_str})'
ScopedQuery(conv_id, q) ==
    <<"conv_id:", Quote, conv_id, Quote, "AND", "(">> \o q \o <<")">>

\* f'conv_id:"{conv_id}" AND "{query_str}"'
ScopedRetry(conv_id, q) ==
    <<"conv_id:", Quote, conv_id, Quote, "AND", Quote>> \o q \o <<Quote>>

\* ConversationIndex.search_in_conversation
SearchInConversation(docs, conv_id, q) ==
    IF q = <<>> THEN Hits({})
    ELSE SearchParsed(docs, ParseQuery(ScopedQuery(conv_id, q)),
                      ParseQuery(ScopedRetry(conv_id, q)))

\* a ConversationIndex object: its conversations dict, the documents its
\* writer holds uncommitted, the documents a searcher sees, and whether its
\* directory still exists
IndexObject(conversations, staged, committed, dir) ==
    [conversations |-> conversations, staged |-> staged, committed |-> committed,
     dir |-> dir]

SearchAll ==
    /\ outcome = None
    /\ scope = None
    /\ cur_index # 0
    /\ outcome' = Search(indexes[cur_index].committed, query_str)
    /\ UNCHANGED <<query_str, scope, indexVars, previewVars, sessionVars>>
    /\ UNCHANGED <<mergerVars, classifierVars, finderVars, extractVars, viewerVars>>

SearchScoped ==
    /\ outcome = None
    /\ scope # None
    /\ cur_index # 0
    /\ outcome' = SearchInConversation(indexes[cur_index].committed, scope[2], query_str)
    /\ UNCHANGED <<query_str, scope, indexVars, previewVars, sessionVars>>
    /\ UNCHANGED <<mergerVars, classifierVars, finderVars, extractVars, viewerVars>>

SearchNext == SearchAll \/ SearchScoped

MaxQueryLen == 5    \* a query string holds up to MaxQueryLen lexemes

QueryLexemes == {"x", "(", ")", "OR", Quote}
QueryStrings == UNION {[1..k -> QueryLexemes] : k \in 0..MaxQueryLen}

\* the documents of two conversations, as committed by a finished load
SearchDocs ==
    {Doc("a", "n1", <<"ta">>, "user", <<"x">>),
     Doc("a", "n2", <<"ta">>, "assistant", <<"z">>),
     Doc("b", "n3", <<"tb">>, "user", <<"x">>),
     Doc("b", "n4", <<"tb">>, "assistant", <<"x", "or", "x">>)}

InitSearch ==
    /\ NoExtract
    /\ NoViewer
    /\ indexes = <<IndexObject(<<"a", "b">>, {}, SearchDocs, TRUE)>>
    /\ cur_index = 1
    /\ query_str \in QueryStrings
    /\ scope \in {None} \cup {Str(id) : id \in Ids}
    /\ outcome = None
    /\ NoMerger
    /\ NoClassifier
    /\ NoFinder
    /\ NoPreview
    /\ NoSession
SpecSearch == InitSearch /\ [][SearchNext]_vars

\* scoped searches with query strings of words, parentheses and operators
OperatorLexemes == {"x", "(", ")", "OR", "AND"}
OperatorStrings == UNION {[1..k -> OperatorLexemes] : k \in 0..MaxQueryLen}

InitScoped ==
    /\ NoExtract
    /\ NoViewer
    /\ indexes = <<IndexObject(<<"a", "b">>, {}, SearchDocs, TRUE)>>
    /\ cur_index = 1
    /\ query_str \in OperatorStrings
    /\ scope \in {Str(id) : id \in Ids}
    /\ outcome = None
    /\ NoMerger
    /\ NoClassifier
    /\ NoFinder
    /\ NoPreview
    /\ NoSession
SpecScoped == InitScoped /\ [][SearchScoped]_vars

---------------------------------------------------------------------------
(* ConversationIndex.load_conversations. A file is unreadable, or holds the
   array json.load returns; a conversation of the analyzer holds its id, its
   title and its mapping, a sequence of nodes in iteration order, each with
   its key and its message. *)
ProgressEvery == 50

Unreadable == <<"unreadable">>
Readable(data) == <<"data", data>>
AConv(id, title, nodes) == [conversation_id |-> id, title |-> title, mapping |-> nodes]
\* a node with its parent (None or an id) and its children (a list of ids)
TNode(node_id, parent, children, message) ==
    [node_id |-> node_id, parent |-> parent, children |-> children, message |-> message]
\* a node that holds a message only
ANode(node_id, message) == TNode(node_id, Absent, Absent, message)

RECURSIVE Tokenize(_)
\* the words of a text, split at spaces
Tokenize(text) ==
    IF text = "" THEN <<>>
    ELSE LET n == Len(text)
             k == IF \A i \in 1..n : SubSeq(text, i, i) # " " THEN n + 1
                  ELSE CHOOSE i \in 1..n :
                          /\ SubSeq(text, i, i) = " "
                          /\ \A j \in 1..(i - 1) : SubSeq(text, j, j) # " "
         IN  (IF k = 1 THEN <<>> ELSE <<SubSeq(text, 1, k - 1)>>)
             \o Tokenize(SubSeq(text, k + 1, n))

\* text.strip() is not empty
NonBlank(text) == \E i \in 1..Len(text) : SubSeq(text, i, i) # " "

\* truthiness of msg.get('content')
ContentTruthy(content) ==
    CASE content = Absent -> FALSE
      [] content = None -> FALSE
      [] content[1] = "obj" -> \E k \in DOMAIN Fields(content) : Fields(content)[k] # Absent
      [] content[1] = "str" -> content[2] # ""
      [] OTHER -> TRUE

\* extract_text_from_content raises: content is no object and has no get, or
\* a multimodal part holds "text": null and join meets None
ExtractRaises(content) ==
    \/ content[1] # "obj"
    \/ /\ Field(content, "content_type") = Str("multimodal_text")
       /\ \E i \in 1..Len(Elems(Get(Field(content, "parts"), List(<<>>)))) :
             LET part == Elems(Field(content, "parts"))[i]
             IN  part[1] = "obj" /\ Field(part, "text") = None

\* the node reaches extract_text_from_content
NodeExtracts(node) ==
    /\ ~MsgFalsy(node.message)
    /\ ContentTruthy(node.message[2].content)

NodeRaises(node) == NodeExtracts(node) /\ ExtractRaises(node.message[2].content)

\* the node is indexed: its message has content and its text is not blank
NodeIndexed(node) ==
    /\ NodeExtracts(node)
    /\ ~ExtractRaises(node.message[2].content)
    /\ NonBlank(ExtractTextFromContent(node.message[2].content))

\* the tantivy.Document written for a node
NodeDocument(conv, node) ==
    Doc(Get(conv.conversation_id, Str(""))[2],
        node.node_id,
        Tokenize(Get(conv.title, Str("Untitled"))[2]),
        Get(Field(Get(node.message[2].author, EmptyAuthor), "role"), Str("unknown"))[2],
        Tokenize(ExtractTextFromContent(node.message[2].content)))

\* the loop over mapping.items() of one conversation: it raises at the first
\* node whose extraction raises
ConvRaises(conv) == \E i \in 1..Len(conv.mapping) : NodeRaises(conv.mapping[i])
ConvDocuments(conv) ==
    {NodeDocument(conv, conv.mapping[i]) :
        i \in {j \in 1..Len(conv.mapping) : NodeIndexed(conv.mapping[j])}}

\* the keys of {conv['conversation_id']: conv for conv in data}, in
\* insertion order
RECURSIVE ConversationKeys(_)
ConversationKeys(data) ==
    IF data = <<>> THEN <<>>
    ELSE LET rest == ConversationKeys(SubSeq(data, 1, Len(data) - 1))
             key == data[Len(data)].conversation_id[2]
         IN  IF \E i \in 1..Len(rest) : rest[i] = key THEN rest ELSE Append(rest, key)

\* mutant: the writer makes each conversation's documents visible at once
AddDocumentsCommitted(ix, docs) == [ix EXCEPT !.committed = @ \cup docs]

\* writer.add_document for the documents of one conversation
AddDocuments(ix, docs) == [ix EXCEPT !.staged = @ \cup docs]

\* writer.commit() and self.index.reload()
Commit(ix) == [ix EXCEPT !.committed = @ \cup ix.staged, !.staged = {}]

---------------------------------------------------------------------------
(* The analyzer session: _open_file on the interactive thread, load_thread on
   a worker thread per load, and the callbacks the worker queues with
   root.after, which the interactive thread runs one at a time. *)
MaxLoads == 2       \* _open_file is used up to MaxLoads times

TextMessage(role, text) == Msg(Obj([role |-> Str(role)]), TextContent(text), Absent, Absent)

FileNames == {"A", "B", "C", "malformed", "no_id", "bad_message"}
FileData(name) ==
    CASE name = "A" ->
           Readable(<<AConv(Str("a"), Str("ta"),
                            <<ANode("n1", TextMessage("user", "x")), ANode("n2", None)>>),
                      AConv(Str("b"), Str("tb"),
                            <<ANode("n3", TextMessage("assistant", "x y"))>>)>>)
      [] name = "B" ->
           Readable(<<AConv(Str("c"), Str("tc"),
                            <<ANode("n4", TextMessage("user", "x"))>>)>>)
      [] name = "C" ->
           \* g branches below the code message n11; h has no node
           Readable(<<AConv(Str("g"), Str("tg"),
                            <<TNode("n10", None, List(<<Str("n11")>>),
                                    TextMessage("user", "x")),
                              TNode("n11", Str("n10"), List(<<Str("n12"), Str("n13")>>),
                                    Msg(Obj([role |-> Str("assistant")]),
                                        Obj([content_type |-> Str("code"),
                                             text |-> Str("x")]),
                                        Absent, Absent)),
                              TNode("n12", Str("n11"), List(<<>>),
                                    TextMessage("assistant", "y")),
                              TNode("n13", Str("n11"), List(<<>>),
                                    TextMessage("assistant", "z"))>>),
                      AConv(Str("h"), Str("th"), <<>>)>>)
      [] name = "malformed" -> Unreadable
      [] name = "no_id" ->
           Readable(<<AConv(Absent, Str("td"),
                            <<ANode("n5", TextMessage("user", "x"))>>)>>)
      [] name = "bad_message" ->
           Readable(<<AConv(Str("e"), Str("te"),
                            <<ANode("n6", TextMessage("user", "x")),
                              ANode("n7", Msg(Obj([role |-> Str("tool")]), Str("oops"),
                                              Absent, Absent)),
                              ANode("n8", TextMessage("assistant", "x"))>>),
                      AConv(Str("f"), Str("tf"),
                            <<ANode("n9", TextMessage("user", "x"))>>)>>)

\* a load: its file, the position of load_thread, the index object it read
\* from self.index, the loop counter, msg_count, whether it ended in the except
\* branch, and whether every earlier load had ended when it was started
Thread(file, pc, target, i, msg_count, failed, quiet) ==
    [file |-> file, pc |-> pc, target |-> target, i |-> i, msg_count |-> msg_count,
     failed |-> failed, quiet |-> quiet]

\* the widgets the queued callbacks write
UI(status, errors, tree) == [status |-> status, errors |-> errors, tree |-> tree]

\* the ids _populate_conversation_list lists: all of self.index.conversations
\* when the filter is None or empty, else those in the filter
Populate(filter) ==
    IF cur_index = 0 THEN {}
    ELSE LET keys == {indexes[cur_index].conversations[i] :
                         i \in 1..Len(indexes[cur_index].conversations)}
         IN  IF filter = {} THEN keys ELSE keys \cap filter

\* one callback queued with root.after runs on the interactive thread
ApplyCallback(ui, cb) ==
    CASE cb[1] = "status" -> [ui EXCEPT !.status = cb[2]]
      [] cb[1] = "showerror" -> [ui EXCEPT !.errors = @ + 1]
      [] cb[1] = "complete" ->
           \* _on_load_complete(msg_count)
           [ui EXCEPT !.status = <<"Loaded", Len(indexes[cur_index].conversations), cb[2]>>,
                      !.tree = Populate({})]

RECURSIVE ApplyAll(_, _)
\* self.root.update(): every queued callback runs
ApplyAll(ui, queue) ==
    IF queue = <<>> THEN ui ELSE ApplyAll(ApplyCallback(ui, Head(queue)), Tail(queue))

\* the event loop runs the oldest queued callback
ProcessAfter ==
    /\ after_queue # <<>>
    /\ LET ui == ApplyCallback(UI(status_var, error_dialogs, conv_tree), Head(after_queue))
       IN  /\ status_var' = ui.status
           /\ error_dialogs' = ui.errors
           /\ conv_tree' = ui.tree
    /\ after_queue' = Tail(after_queue)
    /\ UNCHANGED <<threads, indexVars, searchVars, previewVars>>
    /\ UNCHANGED <<mergerVars, classifierVars, finderVars, extractVars, viewerVars>>

(* ConversationAnalyzerApp._open_file with a file chosen *)
OpenFile(file) ==
    /\ Len(indexes) < MaxLoads
    /\ LET ui == ApplyAll(UI(<<"Loading", file>>, error_dialogs, conv_tree), after_queue)
           cleaned == [k \in 1..Len(indexes) |->
                         IF k = cur_index THEN [indexes[k] EXCEPT !.dir = FALSE]
                         ELSE indexes[k]]
       IN  /\ status_var' = ui.status
           /\ error_dialogs' = ui.errors
           /\ conv_tree' = ui.tree
           /\ after_queue' = <<>>
           /\ indexes' = Append(cleaned, IndexObject(<<>>, {}, {}, TRUE))
           /\ cur_index' = Len(indexes) + 1
           /\ threads' = Append(threads, Thread(file, "begin", 0, 0, 0, FALSE,
                                                   \A j \in 1..Len(threads) :
                                                      threads[j].pc = "done"))
    /\ UNCHANGED <<searchVars, previewVars>>
    /\ UNCHANGED <<mergerVars, classifierVars, finderVars, extractVars, viewerVars>>

OpenAnyFile == \E file \in FileNames : OpenFile(file)

\* the except branch of load_thread: two callbacks are queued
ErrorCallbacks == <<<<"showerror">>, <<"status", <<"Error loading file.">>>>>>

(* load_thread starts: self.index is read, and load_conversations opens and
   parses the file *)
LoadBegin(k) ==
    /\ threads[k].pc = "begin"
    /\ IF FileData(threads[k].file) = Unreadable
       THEN /\ threads' = [threads EXCEPT ![k].pc = "done", ![k].failed = TRUE,
                                           ![k].target = cur_index]
            /\ after_queue' = after_queue \o ErrorCallbacks
       ELSE /\ threads' = [threads EXCEPT ![k].pc = "assign", ![k].target = cur_index]
            /\ UNCHANGED after_queue
    /\ UNCHANGED <<status_var, error_dialogs, conv_tree, indexVars, searchVars, previewVars>>
    /\ UNCHANGED <<mergerVars, classifierVars, finderVars, extractVars, viewerVars>>

\* self.index.writer(): an index has one writer at a time, and the directory
\* of an index that was cleaned up is gone
WriterRaises(k, t) ==
    IF \E j \in 1..Len(threads) :
          j # k /\ threads[j].target = t /\ threads[j].pc \in {"index", "commit"}
    THEN {TRUE}
    ELSE IF indexes[t].dir THEN {FALSE} ELSE {TRUE, FALSE}

(* self.conversations = {...}, then writer = self.index.writer() *)
LoadAssign(k) ==
    /\ threads[k].pc = "assign"
    /\ LET data == FileData(threads[k].file)[2]
           t == threads[k].target
       IN  IF LoadRaises(data)
           THEN /\ threads' = [threads EXCEPT ![k].pc = "done", ![k].failed = TRUE]
                /\ after_queue' = after_queue \o ErrorCallbacks
                /\ UNCHANGED indexes
           ELSE /\ indexes' = [indexes EXCEPT ![t].conversations = ConversationKeys(data)]
                /\ \E raises \in WriterRaises(k, t) :
                      IF raises
                      THEN /\ threads' = [threads EXCEPT ![k].pc = "done",
                                                          ![k].failed = TRUE]
                           /\ after_queue' = after_queue \o ErrorCallbacks
                      ELSE /\ threads' = [threads EXCEPT ![k].pc = "index"]
                           /\ UNCHANGED after_queue
    /\ UNCHANGED <<status_var, error_dialogs, conv_tree, cur_index, searchVars, previewVars>>
    /\ UNCHANGED <<mergerVars, classifierVars, finderVars, extractVars, viewerVars>>

(* one pass of "for i, conv in enumerate(data)" *)
LoadIndex(k) ==
    /\ threads[k].pc = "index"
    /\ LET data == FileData(threads[k].file)[2]
           t == threads[k].target
           i == threads[k].i
           conv == data[i + 1]
       IN  IF ConvRaises(conv)
           THEN /\ threads' = [threads EXCEPT ![k].pc = "done", ![k].failed = TRUE]
                /\ after_queue' = after_queue \o ErrorCallbacks
                /\ indexes' = [indexes EXCEPT ![t].staged = {}]
           ELSE /\ indexes' = [indexes EXCEPT ![t] = AddDocuments(@, ConvDocuments(conv))]
                /\ threads' = [threads EXCEPT
                                  ![k].i = i + 1,
                                  ![k].msg_count = @ + Cardinality(ConvDocuments(conv)),
                                  ![k].pc = IF i + 1 = Len(data) THEN "commit" ELSE "index"]
                /\ after_queue' =
                      IF i % ProgressEvery = 0
                      THEN Append(after_queue, <<"status", <<"Indexing", i, Len(data)>>>>)
                      ELSE after_queue
    /\ UNCHANGED <<status_var, error_dialogs, conv_tree, cur_index, searchVars, previewVars>>
    /\ UNCHANGED <<mergerVars, classifierVars, finderVars, extractVars, viewerVars>>

(* writer.commit(), self.index.reload(), the last progress callback, and the
   return to load_thread, which queues _on_load_complete *)
LoadCommit(k) ==
    /\ threads[k].pc = "commit"
    /\ LET data == FileData(threads[k].file)[2]
           t == threads[k].target
       IN  \E raises \in (IF indexes[t].dir THEN {FALSE} ELSE {TRUE, FALSE}) :
              IF raises
              THEN /\ threads' = [threads EXCEPT ![k].pc = "done", ![k].failed = TRUE]
                   /\ after_queue' = after_queue \o ErrorCallbacks
                   /\ indexes' = [indexes EXCEPT ![t].staged = {}]
              ELSE /\ indexes' = [indexes EXCEPT ![t] = Commit(@)]
                   /\ threads' = [threads EXCEPT ![k].pc = "done"]
                   /\ after_queue' = after_queue \o
                         <<<<"status", <<"Indexing", Len(data), Len(data)>>>>,
                           <<"complete", threads[k].msg_count>>>>
    /\ UNCHANGED <<status_var, error_dialogs, conv_tree, cur_index, searchVars, previewVars>>
    /\ UNCHANGED <<mergerVars, classifierVars, finderVars, extractVars, viewerVars>>

\* the widgets and search_results after self.index.search returned or raised
AfterSearch(ui, old_results, search_results) ==
    IF search_results = Raised
    THEN [ui |-> ui, results |-> old_results]
    ELSE LET conv_ids == {d.conv_id : d \in search_results[2]}
         IN  [ui |-> UI(IF search_results[2] # {}
                        THEN <<"Found", Cardinality(search_results[2]), Cardinality(conv_ids)>>
                        ELSE <<"No results found.">>,
                        ui.errors,
                        Populate(conv_ids)),
              results |-> search_results]

\* what the user types into the search box
TypedQueries == {<<"x">>, <<>>}

(* ConversationAnalyzerApp._do_search with the text q typed into the search box *)
DoSearch ==
    \E q \in TypedQueries :
       /\ query_str' = q
       /\ IF q = <<>> \/ cur_index = 0
          THEN UNCHANGED <<after_queue, error_dialogs, status_var, conv_tree, outcome>>
          ELSE \E after \in {AfterSearch(ApplyAll(UI(<<"Searching...">>, error_dialogs,
                                                      conv_tree),
                                                   after_queue),
                                          outcome,
                                          Search(indexes[cur_index].committed, q))} :
                  /\ after_queue' = <<>>
                  /\ error_dialogs' = after.ui.errors
                  /\ status_var' = after.ui.status
                  /\ conv_tree' = after.ui.tree
                  /\ outcome' = after.results
       /\ UNCHANGED <<scope, threads, indexVars, previewVars>>
       /\ UNCHANGED <<mergerVars, classifierVars, finderVars, extractVars, viewerVars>>

(* ConversationAnalyzerApp._clear_search *)
ClearSearch ==
    /\ query_str' = <<>>
    /\ outcome' = Hits({})
    /\ conv_tree' = Populate({})
    /\ status_var' = IF cur_index # 0
                     THEN <<"Showing all", Len(indexes[cur_index].conversations)>>
                     ELSE <<"">>
    /\ UNCHANGED <<scope, threads, after_queue, error_dialogs, indexVars, previewVars>>
    /\ UNCHANGED <<mergerVars, classifierVars, finderVars, extractVars, viewerVars>>

SessionNext ==
    \/ OpenAnyFile
    \/ ProcessAfter
    \/ DoSearch
    \/ ClearSearch
    \/ \E k \in 1..Len(threads) : LoadBegin(k)
    \/ \E k \in 1..Len(threads) : LoadAssign(k)
    \/ \E k \in 1..Len(threads) : LoadIndex(k)
    \/ \E k \in 1..Len(threads) : LoadCommit(k)

---------------------------------------------------------------------------
(* The viewer: selecting a conversation and a branch, the filter checkboxes,
   _display_branch and _export_conversation. *)
KeyError == <<"raised", "KeyError">>

\* self.index.conversations[key]: the conversation ids of the session's files
\* are distinct, so a key names its conversation
ArchiveConv(key) ==
    LET file == CHOOSE f \in FileNames :
                    /\ FileData(f) # Unreadable
                    /\ \E i \in 1..Len(FileData(f)[2]) :
                          FileData(f)[2][i].conversation_id = Str(key)
        data == FileData(file)[2]
    IN  data[CHOOSE i \in 1..Len(data) : data[i].conversation_id = Str(key)]

InArchive(key) ==
    /\ cur_index # 0
    /\ \E i \in 1..Len(indexes[cur_index].conversations) :
          indexes[cur_index].conversations[i] = key

\* the position of a node id in the mapping; Len + 1 for an id that is no key
KeyPos(nodes, node_id) ==
    IF \E i \in 1..Len(nodes) : nodes[i].node_id = node_id
    THEN CHOOSE i \in 1..Len(nodes) : nodes[i].node_id = node_id
    ELSE Len(nodes) + 1

\* conv.get('mapping', {}) as _find_all_branches reads it
MappingOf(conv) ==
    [i \in 1..Len(conv.mapping) |->
        Node(IF conv.mapping[i].parent \in {Absent, None} THEN None
             ELSE Id(KeyPos(conv.mapping, conv.mapping[i].parent[2])),
             [c \in 1..Len(Elems(Get(conv.mapping[i].children, List(<<>>)))) |->
                 KeyPos(conv.mapping, Elems(conv.mapping[i].children)[c][2])])]

RECURSIVE WhileStack(_, _, _)
\* the while loop of _find_all_branches, run to its end
WhileStack(m, stk, found) ==
    IF stk = <<>> THEN found
    ELSE IF ChildrenOf(m, stk[PopIndex(stk)][1]) = <<>>
    THEN WhileStack(m, Remove(stk, PopIndex(stk)),
                    Append(found, CurrentPath(stk[PopIndex(stk)][2], stk[PopIndex(stk)][1])))
    ELSE WhileStack(m,
                    PushChildren(Remove(stk, PopIndex(stk)),
                                 ChildrenOf(m, stk[PopIndex(stk)][1]),
                                 CurrentPath(stk[PopIndex(stk)][2], stk[PopIndex(stk)][1])),
                    found)

\* _find_all_branches as a function of the mapping
FindAllBranches(m) ==
    IF NotRootId(FindRoot(m)) THEN <<>>
    ELSE WhileStack(m, <<<<FindRoot(m)[2], <<>>>>>>, <<>>)

\* branches of positions as lists of node ids
NodeIdsOf(conv, found) ==
    [b \in 1..Len(found) |-> [i \in 1..Len(found[b]) |-> conv.mapping[found[b][i]].node_id]]

\* the branches of a conversation
BranchesOf(conv) == NodeIdsOf(conv, FindAllBranches(MappingOf(conv)))

\* mapping.get(node_id, {}).get('message')
MessageOf(conv, node_id) ==
    IF KeyPos(conv.mapping, node_id) <= Len(conv.mapping)
    THEN conv.mapping[KeyPos(conv.mapping, node_id)].message
    ELSE None

LowerCase == "abcdefghijklmnopqrstuvwxyz"
UpperCase == "ABCDEFGHIJKLMNOPQRSTUVWXYZ"
CharIn(c, letters) == \E i \in 1..Len(letters) : SubSeq(letters, i, i) = c
CharAs(c, from, to) ==
    IF CharIn(c, from)
    THEN SubSeq(to, CHOOSE i \in 1..Len(from) : SubSeq(from, i, i) = c,
                    CHOOSE i \in 1..Len(from) : SubSeq(from, i, i) = c)
    ELSE c

RECURSIVE LowerStr(_)
LowerStr(str) ==
    IF str = "" THEN ""
    ELSE CharAs(SubSeq(str, 1, 1), UpperCase, LowerCase) \o LowerStr(SubSeq(str, 2, Len(str)))

\* str.capitalize()
Capitalize(str) ==
    IF str = "" THEN ""
    ELSE CharAs(SubSeq(str, 1, 1), LowerCase, UpperCase) \o LowerStr(SubSeq(str, 2, Len(str)))

RoleOfMessage(m) ==
    Get(Field(Get(m[2].author, EmptyAuthor), "role"), Str("unknown"))[2]

\* the categories that have a checkbox: _should_show_message
FilterCategories ==
    {"user", "assistant", "system", "reasoning", "tool", "code", "web_citation", "error"}
ShouldShowMessage(m, flt) ==
    GetMessageCategory(m) \in FilterCategories => GetMessageCategory(m) \in flt

DisplayRole(m) ==
    CASE GetMessageCategory(m) = "reasoning" -> "Reasoning"
      [] GetMessageCategory(m) = "tool" -> "Tool"
      [] GetMessageCategory(m) = "code" -> "Code"
      [] GetMessageCategory(m) = "web_citation" -> "Citation"
      [] GetMessageCategory(m) = "error" -> "Error"
      [] OTHER -> Capitalize(RoleOfMessage(m))

\* what _display_branch inserts for one node: nothing, or a header and the
\* text (the message has no create_time; Node IDs and Model are not ticked)
DisplayNode(m, flt) ==
    IF MsgFalsy(m) THEN <<>>
    ELSE IF ~ShouldShowMessage(m, flt) THEN <<>>
    ELSE IF ~NonBlank(ExtractTextFromContent(Get(m[2].content, EmptyContent))) THEN <<>>
    ELSE <<"--- " \o DisplayRole(m) \o " ---\n",
           ExtractTextFromContent(Get(m[2].content, EmptyContent)) \o "\n\n">>

\* the text widget after _display_branch, or the KeyError it raised
DisplayBranch(conv_id, path, flt) ==
    IF cur_index = 0 \/ conv_id = None THEN <<"text", <<>>>>
    ELSE IF ~InArchive(conv_id[2]) THEN KeyError
    ELSE <<"text", FlatSeq([i \in 1..Len(path) |->
                               DisplayNode(MessageOf(ArchiveConv(conv_id[2]), path[i]), flt)])>>

\* ' '.join(str(p) for p in parts if p); the parts of the session's files
\* are strings
ExportText(content) ==
    JoinStr(TextParts(Elems(Get(Field(content, "parts"), List(<<>>)))), " ")

\* what the text export appends for one node
ExportNode(m) ==
    IF MsgFalsy(m) THEN <<>>
    ELSE IF Field(Get(m[2].content, EmptyContent), "content_type") # Str("text") THEN <<>>
    ELSE IF ~NonBlank(ExportText(Get(m[2].content, EmptyContent))) THEN <<>>
    ELSE <<"## " \o Capitalize(RoleOfMessage(m)) \o "\n\n"
           \o ExportText(Get(m[2].content, EmptyContent)) \o "\n\n">>

\* the lines written for a text export
ExportLines(conv, path) ==
    <<"# " \o Get(conv.title, Str("Untitled"))[2] \o "\n\n">>
    \o FlatSeq([i \in 1..Len(path) |-> ExportNode(MessageOf(conv, path[i]))])

(* _load_conversation once _find_all_branches has returned *)
LoadConversation(conv_id, found) ==
    /\ branch_paths' = found
    /\ IF found # <<>>
       THEN /\ current_branch_path' = found[1]
            /\ msg_text' = DisplayBranch(Str(conv_id), found[1], filters)
       ELSE UNCHANGED <<current_branch_path, msg_text>>

(* _on_conversation_select on a row of conv_tree, with _load_conversation *)
OnConversationSelect(conv_id) ==
    /\ conv_id \in conv_tree
    /\ current_conv_id' = Str(conv_id)
    /\ IF ~InArchive(conv_id)
       THEN UNCHANGED <<branch_paths, current_branch_path, msg_text>>
       ELSE LoadConversation(conv_id, BranchesOf(ArchiveConv(conv_id)))
    /\ UNCHANGED <<filters, export_file, extractVars, previewVars, indexVars, searchVars,
                   sessionVars>>
    /\ UNCHANGED <<mergerVars, classifierVars, finderVars>>

SelectAnyConversation == \E conv_id \in conv_tree : OnConversationSelect(conv_id)

(* _on_branch_select on an entry of branch_combo *)
OnBranchSelect ==
    \E idx \in 1..Len(branch_paths) :
       /\ current_branch_path' = branch_paths[idx]
       /\ msg_text' = DisplayBranch(current_conv_id, branch_paths[idx], filters)
       /\ UNCHANGED <<current_conv_id, branch_paths, filters, export_file, extractVars,
                      previewVars, indexVars, searchVars, sessionVars>>
       /\ UNCHANGED <<mergerVars, classifierVars, finderVars>>

\* the checkboxes the sessions click
FilterNames == {"code"}

(* a filter checkbox is clicked: its BooleanVar flips, then _on_filter_change *)
OnFilterChange ==
    \E name \in FilterNames :
       /\ filters' = IF name \in filters THEN filters \ {name} ELSE filters \cup {name}
       /\ msg_text' = DisplayBranch(current_conv_id, current_branch_path,
                                    IF name \in filters THEN filters \ {name}
                                    ELSE filters \cup {name})
       /\ UNCHANGED <<current_conv_id, current_branch_path, branch_paths, export_file,
                      extractVars, previewVars, indexVars, searchVars, sessionVars>>
       /\ UNCHANGED <<mergerVars, classifierVars, finderVars>>

(* _export_conversation: the dialog is cancelled, or a .json or a .txt path
   is chosen *)
ExportConversation ==
    \E kind \in {"cancel", "json", "txt"} :
       /\ IF current_conv_id = None \/ cur_index = 0 \/ kind = "cancel"
          THEN UNCHANGED export_file
          ELSE IF ~InArchive(current_conv_id[2])
          THEN export_file' = KeyError
          ELSE IF kind = "json"
          THEN export_file' = <<"json", current_conv_id[2]>>
          ELSE export_file' =
                  <<"txt", ExportLines(ArchiveConv(current_conv_id[2]), current_branch_path)>>
       /\ UNCHANGED <<current_conv_id, current_branch_path, branch_paths, filters, msg_text,
                      extractVars, previewVars, indexVars, searchVars, sessionVars>>
       /\ UNCHANGED <<mergerVars, classifierVars, finderVars>>

\* the files the viewer sessions open
ViewerFiles == {"B", "C"}
OpenViewerFile == \E file \in ViewerFiles : OpenFile(file)

ViewerNext ==
    \/ OpenViewerFile
    \/ ProcessAfter
    \/ SelectAnyConversation
    \/ OnBranchSelect
    \/ OnFilterChange
    \/ ExportConversation
    \/ \E k \in 1..Len(threads) : LoadBegin(k)
    \/ \E k \in 1..Len(threads) : LoadAssign(k)
    \/ \E k \in 1..Len(threads) : LoadIndex(k)
    \/ \E k \in 1..Len(threads) : LoadCommit(k)

\* the files of the sessions that load archives whose JSON is well formed
ArchiveNames == {"A", "bad_message"}
OpenArchive == \E file \in ArchiveNames : OpenFile(file)

LoadingNext ==
    \/ OpenArchive
    \/ ProcessAfter
    \/ DoSearch
    \/ ClearSearch
    \/ \E k \in 1..Len(threads) : LoadBegin(k)
    \/ \E k \in 1..Len(threads) : LoadAssign(k)
    \/ \E k \in 1..Len(threads) : LoadIndex(k)
    \/ \E k \in 1..Len(threads) : LoadCommit(k)

InitSession ==
    /\ NoExtract
    /\ NoViewer
    /\ NoIndex
    /\ NoSession
    /\ query_str = <<>>
    /\ scope = None
    /\ outcome = None
    /\ NoPreview
    /\ NoMerger
    /\ NoClassifier
    /\ NoFinder
SpecSession == InitSession /\ [][SessionNext]_vars
SpecLoading == InitSession /\ [][LoadingNext]_vars
SpecViewer == InitSession /\ [][ViewerNext]_vars

---------------------------------------------------------------------------
(* Properties of merge and compare *)
BothLoaded == ~older_data.is_none /\ ~newer_data.is_none
Merged == last_handler = "_merge_files" /\ messagebox = "showinfo: Merged"
Compared == last_handler = "_compare_files" /\ BothLoaded

IdsOf(convs) == {convs[i].conversation_id[2] : i \in 1..Len(convs)}
UnionIds == IdsOf(older_data.dict) \cup IdsOf(newer_data.dict)
ConvOf(convs, cid) == convs[CHOOSE i \in 1..Len(convs) : convs[i].conversation_id[2] = cid]
NodeCount(conv) == IF conv.mapping = Absent THEN 0 ELSE conv.mapping[2]
TimeOrZero(t) == IF t = Absent THEN 0 ELSE t[2]

\* C1: the merged result holds exactly the ids of older and newer together,
\* each id once.
C1_MergeKeepsEveryId ==
    Merged =>
        /\ IdsOf(merged_file.convs) = UnionIds
        /\ Len(merged_file.convs) = Cardinality(UnionIds)

C1_Witness ==
    /\ Merged
    /\ IdsOf(older_data.dict) \ IdsOf(newer_data.dict) # {}
    /\ IdsOf(newer_data.dict) \ IdsOf(older_data.dict) # {}

\* C2: an id of one input only keeps that input's conversation; an id of both
\* keeps the conversation with more nodes, and older's on a tie.
C2_MergePicksLargerOlderOnTie ==
    Merged =>
        \A cid \in UnionIds :
            LET kept == ConvOf(merged_file.convs, cid) IN
            IF cid \notin IdsOf(newer_data.dict)
            THEN kept = ConvOf(older_data.dict, cid)
            ELSE IF cid \notin IdsOf(older_data.dict)
            THEN kept = ConvOf(newer_data.dict, cid)
            ELSE LET o == ConvOf(older_data.dict, cid)
                     n == ConvOf(newer_data.dict, cid)
                 IN  /\ NodeCount(o) > NodeCount(n) => kept = o
                     /\ NodeCount(o) < NodeCount(n) => kept = n
                     /\ NodeCount(o) = NodeCount(n) => kept = o

C2_Witness ==
    /\ Merged
    /\ \E cid \in IdsOf(older_data.dict) \cap IdsOf(newer_data.dict) :
          /\ NodeCount(ConvOf(older_data.dict, cid)) = NodeCount(ConvOf(newer_data.dict, cid))
          /\ ConvOf(older_data.dict, cid) # ConvOf(newer_data.dict, cid)
    /\ \E cid \in IdsOf(older_data.dict) \cap IdsOf(newer_data.dict) :
          NodeCount(ConvOf(older_data.dict, cid)) < NodeCount(ConvOf(newer_data.dict, cid))

\* C3: adjacent conversations of the merged output are in descending
\* update_time, an absent update_time counting as 0.
C3_MergeOrderedByUpdateTime ==
    Merged =>
        \A i \in 1..(Len(merged_file.convs) - 1) :
            TimeOrZero(merged_file.convs[i].update_time)
                >= TimeOrZero(merged_file.convs[i + 1].update_time)

\* the sort had to reorder what the loop over all_ids produced
C3_Witness ==
    /\ Merged
    /\ Len(merged_file.convs) = 2
    /\ merged_file.convs # MergedValues(older_data.dict, newer_data.dict)
    /\ \E i \in 1..2 : merged_file.convs[i].update_time = Absent

\* C4: merge of two loaded archives, once an output path is chosen, never
\* ends with the error outcome.
C4_MergeIsTotal ==
    (last_handler = "_merge_files" /\ BothLoaded) =>
        messagebox # "showerror: Failed to merge"

\* C5: compare leaves one summary entry per id of older that newer lacks, with
\* the title, the node count of older's mapping and both timestamps, and
\* counts the common and the new ids.
C5_CompareComputesMissing ==
    Compared =>
        LET older == older_data.dict
            newer == newer_data.dict
            missing == IdsOf(older) \ IdsOf(newer)
        IN  /\ {missing_conversations[i].conversation_id :
                   i \in 1..Len(missing_conversations)} = missing
            /\ Len(missing_conversations) = Cardinality(missing)
            /\ summary_var.missing = Cardinality(missing)
            /\ summary_var.common = Cardinality(IdsOf(older) \cap IdsOf(newer))
            /\ summary_var.new_in_newer = Cardinality(IdsOf(newer) \ IdsOf(older))
            /\ \A i \in 1..Len(missing_conversations) :
                  LET e == missing_conversations[i]
                      conv == ConvOf(older, e.conversation_id)
                  IN  /\ e.title = (IF conv.title = Absent THEN Str("Untitled") ELSE conv.title)
                      /\ e.nodes = NodeCount(conv)
                      /\ e.create_time = (IF conv.create_time = Absent THEN Num(0) ELSE conv.create_time)
                      /\ e.update_time = (IF conv.update_time = Absent THEN Num(0) ELSE conv.update_time)

C5_Witness ==
    /\ Compared
    /\ Len(missing_conversations) = 1
    /\ missing_conversations[1].nodes >= 1
    /\ missing_conversations[1].title = Str("T")
    /\ missing_conversations[1].create_time # Num(0)
    /\ summary_var.common = 1

\* C6: the missing ids of compare(A, B) are the new ids of compare(B, A) and
\* none of them is missing in compare(B, A); the two missing sets are equal
\* only when both are empty.
C6_CompareAsymmetric ==
    Compared =>
        LET A == older_data.dict
            B == newer_data.dict
            missingAB == {missing_conversations[i].conversation_id :
                             i \in 1..Len(missing_conversations)}
        IN  /\ missingAB = NewInNewer(B, A)
            /\ Len(missing_conversations) = Cardinality(NewInNewer(B, A))
            /\ missingAB \cap MissingIds(B, A) = {}
            /\ missingAB = MissingIds(B, A) => (missingAB = {} /\ MissingIds(B, A) = {})

C6_Witness ==
    /\ Compared
    /\ missing_conversations # <<>>
    /\ MissingIds(newer_data.dict, older_data.dict) # {}

---------------------------------------------------------------------------
(* Properties of get_message_category *)
Classified == category # "pending"
C7_Status == IF msg[2].metadata = Absent THEN Absent ELSE msg[2].metadata[2].reasoning_status
C7_Type == IF msg[2].content = Absent THEN Absent ELSE msg[2].content[2].content_type
C7_Role == IF msg[2].author = Absent THEN Absent ELSE msg[2].author[2].role
C7_Empty ==
    \/ msg = None
    \/ msg = Msg(Absent, Absent, Absent, Absent)
C7_ReasoningMeta == C7_Status \in {Str("is_reasoning"), Str("reasoning_ended")}

\* C7: one fixed precedence: reasoning metadata, then thoughts/reasoning_recap,
\* tether_quote, system_error, code/execution_output, then the author role,
\* else other; an absent or empty message is other.
C7_CategorizePrecedence ==
    Classified =>
        IF C7_Empty THEN category = "other"
        ELSE /\ C7_ReasoningMeta => category = "reasoning"
             /\ (~C7_ReasoningMeta /\ C7_Type \in {Str("thoughts"), Str("reasoning_recap")})
                    => category = "reasoning"
             /\ (~C7_ReasoningMeta /\ C7_Type = Str("tether_quote"))
                    => category = "web_citation"
             /\ (~C7_ReasoningMeta /\ C7_Type = Str("system_error"))
                    => category = "error"
             /\ (~C7_ReasoningMeta /\ C7_Type \in {Str("code"), Str("execution_output")})
                    => category = "code"
             /\ (/\ ~C7_ReasoningMeta
                 /\ C7_Type \notin {Str("thoughts"), Str("reasoning_recap"), Str("tether_quote"),
                                    Str("system_error"), Str("code"), Str("execution_output")})
                    => /\ C7_Role \in {Str("tool"), Str("system"), Str("user"), Str("assistant")}
                            => Str(category) = C7_Role
                       /\ C7_Role \notin {Str("tool"), Str("system"), Str("user"), Str("assistant")}
                            => category = "other"

\* reasoning metadata on a message that carries code
C7_Witness ==
    /\ Classified
    /\ ~C7_Empty
    /\ C7_Status = Str("reasoning_ended")
    /\ C7_Type = Str("code")
    /\ C7_Role = Str("tool")
    /\ category = "reasoning"

---------------------------------------------------------------------------
(* Properties of _find_all_branches *)
Returned == fb_pc = "returned"
NodeIds == 1..Len(mapping)
ParentlessNodes == {i \in NodeIds : mapping[i].parent = None}

\* the path from node_id that follows the first child at every node, for at
\* most `hops` edges
RECURSIVE FirstChildPath(_, _)
FirstChildPath(node_id, hops) ==
    IF hops = 0 \/ mapping[node_id].children = <<>> THEN <<node_id>>
    ELSE <<node_id>> \o FirstChildPath(mapping[node_id].children[1], hops - 1)

\* the mapping is the chain s[1] -> s[2] -> ... -> s[n]
ChainAlong(s) ==
    /\ Len(s) = Len(mapping)
    /\ mapping[s[1]].parent = None
    /\ \A k \in 2..Len(mapping) : mapping[s[k]].parent = Id(s[k - 1])
    /\ \A k \in 1..(Len(mapping) - 1) : mapping[s[k]].children = <<s[k + 1]>>
    /\ mapping[s[Len(mapping)]].children = <<>>

\* a chain has one parentless node, and the walk from it along the only child
\* of every node passes all N nodes
IsChain ==
    /\ Cardinality(ParentlessNodes) = 1
    /\ ChainAlong(FirstChildPath(CHOOSE r \in ParentlessNodes : TRUE, Len(mapping) - 1))
ChainOrder == FirstChildPath(CHOOSE r \in ParentlessNodes : TRUE, Len(mapping) - 1)

\* C8: a linear chain of N nodes yields exactly one branch, of length N, that
\* lists the nodes from root to leaf.
C8_ChainYieldsOneBranch ==
    (Returned /\ IsChain) =>
        /\ Len(branches) = 1
        /\ Len(branches[1]) = Len(mapping)
        /\ branches[1] = ChainOrder

\* a chain of the largest size whose root is not the first key of the mapping
C8_Witness ==
    /\ Returned
    /\ Len(mapping) = MaxTreeNodes
    /\ IsChain
    /\ ChainOrder[1] # 1
    /\ ChainOrder[2] < ChainOrder[1]
    /\ Len(branches) = 1

\* the mapping is the root r with the two leaf children c1, c2 in that order
TwoLeaves(r, c1, c2) ==
    /\ Len(mapping) = 3
    /\ {r, c1, c2} = 1..3
    /\ mapping[r] = Node(None, <<c1, c2>>)
    /\ mapping[c1] = Node(Id(r), <<>>)
    /\ mapping[c2] = Node(Id(r), <<>>)

\* C9: a root with two leaf children yields exactly two branches, and branch 0
\* ends at the first child of the root's children sequence, wherever the three
\* nodes stand in the mapping's iteration order.
C9_TwoLeavesFirstChildFirst ==
    Returned =>
        \A r, c1, c2 \in NodeIds :
            TwoLeaves(r, c1, c2) =>
                /\ Len(branches) = 2
                /\ branches[1] = <<r, c1>>
                /\ branches[1][Len(branches[1])] = c1

\* the first child is the last key of the mapping and the root is not the first
C9_Witness ==
    /\ Returned
    /\ TwoLeaves(2, 3, 1)
    /\ Len(branches) = 2

BranchIndexes == 1..Len(branches)
Passes(b, node_id) == \E k \in 1..Len(branches[b]) : branches[b][k] = node_id

\* C10: for every node with children c1..ck, every branch through ci comes
\* before every branch through cj when i < j; branch 0 follows the first child
\* at every node.
C10_LeftToRightDepthFirst ==
    Returned =>
        /\ \A x \in NodeIds :
              \A i, j \in 1..Len(mapping[x].children) :
                 i < j =>
                    \A a, b \in BranchIndexes :
                       (/\ Passes(a, mapping[x].children[i])
                        /\ Passes(b, mapping[x].children[j])) => a < b
        /\ \A r \in NodeIds :
              (branches # <<>> /\ branches[1][1] = r) =>
                  branches[1] = FirstChildPath(r, Len(mapping) - 1)

\* the first child's subtree is deeper than the second child, which is a leaf
C10_Witness ==
    /\ Returned
    /\ Len(branches) = 2
    /\ Len(branches[1]) = 3
    /\ Len(branches[2]) = 2
    /\ branches[1][2] > branches[2][2]

\* the ids from the topmost ancestor of node_id down to node_id, read off the
\* parent fields over at most `hops` edges
RECURSIVE PathFromTop(_, _)
PathFromTop(node_id, hops) ==
    IF hops = 0 \/ mapping[node_id].parent = None THEN <<node_id>>
    ELSE Append(PathFromTop(mapping[node_id].parent[2], hops - 1), node_id)

FirstParentless == CHOOSE r \in ParentlessNodes : \A q \in ParentlessNodes : r <= q
ReachableNodes ==
    IF ParentlessNodes = {} THEN {}
    ELSE {i \in NodeIds : PathFromTop(i, Len(mapping))[1] = FirstParentless}
ReachableLeaves == {i \in ReachableNodes : mapping[i].children = <<>>}
LastOf(b) == branches[b][Len(branches[b])]

\* C11: in a tree under the selected root, every reachable node with an empty
\* children list ends exactly one branch, that branch is the path from the
\* root to it, no branch ends at a node with children, and the number of
\* branches is the number of reachable leaves.
C11_OneBranchPerReachableLeaf ==
    Returned =>
        /\ Len(branches) = Cardinality(ReachableLeaves)
        /\ \A l \in ReachableLeaves :
              Cardinality({b \in BranchIndexes : LastOf(b) = l}) = 1
        /\ \A b \in BranchIndexes :
              /\ LastOf(b) \in ReachableLeaves
              /\ mapping[LastOf(b)].children = <<>>
              /\ branches[b] = PathFromTop(LastOf(b), Len(mapping))

\* two leaves under the root, and a third leaf that is a later parentless node
\* and ends no branch
C11_Witness ==
    /\ Returned
    /\ Cardinality(ParentlessNodes) = 2
    /\ Len(branches) = 2
    /\ Cardinality(ReachableLeaves) = 2
    /\ Cardinality({i \in NodeIds : mapping[i].children = <<>>}) = 3

\* C12: the root is the first node in iteration order whose parent is None:
\* without such a node the result is empty; with one, the result is non-empty
\* and every branch starts at that node.
C12_RootIsFirstParentless ==
    Returned =>
        IF ParentlessNodes = {} THEN branches = <<>>
        ELSE /\ branches # <<>>
             /\ \A b \in BranchIndexes : branches[b][1] = FirstParentless

---------------------------------------------------------------------------
(* Properties of _get_branch_preview *)
Previewed == preview # None
C13_IsAssistant(i) ==
    /\ pv_path[i] # None
    /\ pv_path[i][2].author # Absent
    /\ pv_path[i][2].author[2].role = Str("assistant")
C13_Text(i) ==
    IF pv_path[i][2].content = Absent THEN ""
    ELSE ExtractTextFromContent(pv_path[i][2].content)
C13_Cut(t) == IF Len(t) > 60 THEN SubSeq(t, 1, 60) \o "..." ELSE t
C13_Assistants == {i \in 1..Len(pv_path) : C13_IsAssistant(i)}
C13_Speaking == {i \in C13_Assistants : C13_Text(i) # ""}
C13_First(S) == CHOOSE i \in S : \A j \in S : i <= j

---------------------------------------------------------------------------
(* Properties of search and search_in_conversation *)
Searched == outcome # None
Returned_Hits == IF outcome[1] = "hits" THEN outcome[2] ELSE {}
Committed == indexes[cur_index].committed
UnscopedHits ==
    IF Search(Committed, query_str)[1] = "hits" THEN Search(Committed, query_str)[2]
    ELSE {}

\* C14: every hit of the scoped search is a document of the conversation
\* asked for and is matched by the unscoped query.
C14_ScopedHitsStayInConversation ==
    (Searched /\ scope # None) =>
        \A d \in Returned_Hits :
            /\ d.conv_id = scope[2]
            /\ d \in UnscopedHits

\* the string each call parses first, and the one it retries with
C15_FirstQuery ==
    IF scope = None THEN query_str ELSE ScopedQuery(scope[2], query_str)
C15_RetryQuery ==
    IF scope = None THEN <<Quote>> \o query_str \o <<Quote>>
    ELSE ScopedRetry(scope[2], query_str)
C15_FirstParseFails == ~ParseQuery(C15_FirstQuery).ok
C15_RetryFails == ~ParseQuery(C15_RetryQuery).ok
C15_Quotes == Cardinality({i \in 1..Len(query_str) : query_str[i] = Quote})

\* C15 as claimed: a non-blank query never makes search or
\* search_in_conversation raise; a result list is returned.
C15_ParseFailureNeverRaises ==
    (Searched /\ query_str # <<>>) => outcome[1] = "hits"

\* the literal phrase of the query string: its words in order
C15_Phrase == PhraseTokens(query_str)
C15_PhraseDocs ==
    {d \in Committed : HasPhrase(d.text, C15_Phrase) \/ HasPhrase(d.title, C15_Phrase)}

\* C15 as amended: when the structured parse fails, the input is retried
\* between quotes; the call raises exactly when the retry fails to parse too,
\* as it does for an input with an odd number of quotes, and an input without
\* quotes returns the documents (of the scope) that hold it as a phrase.
C15_RetryAsPhraseUnlessUnparsable ==
    (Searched /\ query_str # <<>> /\ C15_FirstParseFails) =>
        /\ outcome = Raised <=> C15_RetryFails
        /\ C15_Quotes % 2 = 1 => outcome = Raised
        /\ C15_Quotes = 0 =>
              outcome = Hits({d \in C15_PhraseDocs :
                                 scope = None \/ d.conv_id = scope[2]})

\* the query  x ) OR ( x  does not parse and is found as the phrase "x or x"
C15_Witness ==
    /\ Searched
    /\ scope = None
    /\ query_str = <<"x", ")", "OR", "(", "x">>
    /\ Returned_Hits # {}

---------------------------------------------------------------------------
(* Properties of the analyzer session *)
ThreadIds == 1..Len(threads)
FileConvs(file) == IF FileData(file) = Unreadable THEN <<>> ELSE FileData(file)[2]

\* every document the load of this file hands to add_document
DocsOfFile(file) ==
    UNION {ConvDocuments(FileConvs(file)[i]) : i \in 1..Len(FileConvs(file))}
KeysOfFile(file) ==
    [i \in 1..Len(FileConvs(file)) |-> FileConvs(file)[i].conversation_id[2]]
\* the same, file by file
LoadDocs == [file \in FileNames |-> DocsOfFile(file)]
AllOrNone(seen, docs) == seen \cap docs = {} \/ docs \subseteq seen

\* C16: the documents of a load become visible together at its commit: what
\* a searcher of any index sees, and what the last search returned, holds
\* none of a load's documents or all of them.
C16_CommitIsAtomic ==
    \A k \in ThreadIds :
        /\ \A n \in 1..Len(indexes) :
              AllOrNone(indexes[n].committed, LoadDocs[threads[k].file])
        /\ outcome # None =>
              AllOrNone(Returned_Hits, LoadDocs[threads[k].file])

\* a search ran between the two conversations of a load and found nothing,
\* the first conversation's documents being written but not committed
C16_Witness ==
    /\ outcome = Hits({})
    /\ status_var = <<"No results found.">>
    /\ after_queue = <<>>
    /\ \E k \in ThreadIds :
          /\ threads[k].pc = "index"
          /\ threads[k].i = 1
          /\ threads[k].target = cur_index
          /\ indexes[cur_index].staged # {}

\* C17: after a load that failed on the file or on a missing conversation id,
\* and that was started when the load before it had ended well, the session
\* still holds the archive and the index of that load, and an error dialog is
\* shown once the queued callbacks have run.
C17_FailedLoadKeepsArchive ==
    \A k \in ThreadIds :
        (/\ k = Len(threads)
         /\ k > 1
         /\ threads[k].failed
         /\ threads[k].file \in {"malformed", "no_id"}
         /\ threads[k].quiet
         /\ ~threads[k - 1].failed)
        => /\ indexes[cur_index].conversations = KeysOfFile(threads[k - 1].file)
           /\ indexes[cur_index].committed = DocsOfFile(threads[k - 1].file)
           /\ indexes[cur_index].dir
           /\ after_queue = <<>> => error_dialogs >= 1

InFlight == {k \in ThreadIds : threads[k].pc # "done"}

\* C18: at most one load is in flight, and once every load has ended and the
\* queued callbacks have run, archive, index and the reported counts are those
\* of the load started last.
C18_NewLoadSupersedes ==
    /\ Cardinality(InFlight) <= 1
    /\ (threads # <<>> /\ InFlight = {} /\ after_queue = <<>>
            /\ ~threads[Len(threads)].failed) =>
          LET file == threads[Len(threads)].file
          IN  /\ indexes[cur_index].conversations = KeysOfFile(file)
              /\ indexes[cur_index].committed = DocsOfFile(file)
              /\ status_var[1] = "Loaded" =>
                    status_var = <<"Loaded", Len(KeysOfFile(file)),
                                   Cardinality(DocsOfFile(file))>>

\* C19: while a load is running, the session's index object shows nothing of
\* it: its conversations and its searcher are as the constructor left them.
C19_WorkerWritesNothingShared ==
    \A k \in ThreadIds :
        (threads[k].pc # "done" /\ threads[k].target = cur_index) =>
            /\ indexes[cur_index].conversations = <<>>
            /\ indexes[cur_index].committed = {}

\* C20: a load whose file holds one message that cannot be indexed ends
\* without failure, with every other message committed.
C20_BadMessageIsSkipped ==
    (/\ Len(threads) = 1
     /\ threads[1].pc = "done"
     /\ threads[1].file = "bad_message")
    => /\ ~threads[1].failed
       /\ indexes[1].committed = DocsOfFile("bad_message")
       /\ indexes[1].conversations = KeysOfFile("bad_message")

---------------------------------------------------------------------------
(* Properties of the merger session as a whole *)
HandlerRan(name) == last_handler' = name /\ vars' # vars

\* C21: a step of _compare_files or of _merge_files leaves both loaded
\* archives as they were, ids and contents; the merge leaves the comparison's
\* list alone and the comparison leaves the merged file alone.
C21_LoadedArchivesReadOnly ==
    [][/\ (HandlerRan("_compare_files") \/ HandlerRan("_merge_files")) =>
            /\ older_data' = older_data
            /\ newer_data' = newer_data
       /\ HandlerRan("_merge_files") => missing_conversations' = missing_conversations
       /\ HandlerRan("_compare_files") => merged_file' = merged_file]_vars

\* both archives are loaded, a comparison found a missing conversation, and
\* a merge was written after it
C21_Witness ==
    /\ BothLoaded
    /\ Merged
    /\ merged_file.written
    /\ missing_conversations # <<>>
    /\ older_data.dict # <<>>

---------------------------------------------------------------------------
(* _find_all_branches on mappings that are no forests *)
Repeats(path) == \E i, j \in 1..Len(path) : i # j /\ path[i] = path[j]

\* C24: _find_all_branches terminates on every finite mapping: no path it
\* builds holds a node twice, for a path that does goes round a cycle of
\* children and is extended again at every turn, so the stack never empties.
C24_NoPathRevisitsANode ==
    /\ \A k \in 1..Len(stack) : ~Repeats(Append(stack[k][2], stack[k][1]))
    /\ \A b \in 1..Len(branches) : ~Repeats(branches[b])

\* C25: every id of a returned branch is a key of the mapping and follows
\* its predecessor as one of that node's children.
C25_BranchesHoldKeysOnly ==
    Returned =>
        \A b \in 1..Len(branches) :
            /\ \A i \in 1..Len(branches[b]) : HasKey(mapping, branches[b][i])
            /\ \A i \in 1..(Len(branches[b]) - 1) :
                  \E c \in 1..Len(mapping[branches[b][i]].children) :
                      mapping[branches[b][i]].children[c] = branches[b][i + 1]

\* C28: the branch count of the conversation list equals the number of
\* branches _find_all_branches returns.
C28_CountEqualsBranches == Returned => CountBranches(mapping) = Len(branches)

---------------------------------------------------------------------------
(* extract_text_from_content on thoughts *)
Extracted == extracted # None
C22_Steps == IF Field(ex_content, "thoughts") \in {Absent, None} THEN <<>>
             ELSE Elems(Field(ex_content, "thoughts"))
C22_Has(step, key) == Field(step, key) \notin {Absent, Str("")}

RECURSIVE C22_Lines(_)
\* '[<summary>]' and then the content of every step, in the order of the steps
C22_Lines(steps) ==
    IF steps = <<>> THEN <<>>
    ELSE LET step == steps[Len(steps)]
         IN  C22_Lines(SubSeq(steps, 1, Len(steps) - 1))
             \o (IF C22_Has(step, "summary")
                 THEN <<"[" \o Field(step, "summary")[2] \o "]">> ELSE <<>>)
             \o (IF C22_Has(step, "content") THEN <<Field(step, "content")[2]>> ELSE <<>>)

\* C22: a thoughts content gives the lines of its steps joined by newlines,
\* and '[Thinking...]' when it has no steps at all.
C22_ThinkingWhenNoSteps ==
    Extracted =>
        extracted = Str(IF C22_Steps = <<>> THEN "[Thinking...]"
                        ELSE JoinStr(C22_Lines(C22_Steps), "\n"))

\* C22, as the code has it: a thoughts content without steps gives the empty
\* string; with steps it gives their lines joined by newlines, and
\* '[Thinking...]' when no step has a summary or a content.
C22_ThinkingWhenStepsAreEmpty ==
    Extracted =>
        extracted = Str(IF C22_Steps = <<>> THEN ""
                        ELSE IF C22_Lines(C22_Steps) = <<>> THEN "[Thinking...]"
                        ELSE JoinStr(C22_Lines(C22_Steps), "\n"))

\* two steps, each with a summary and a content, were extracted
C22_Witness ==
    /\ Extracted
    /\ Len(C22_Steps) = 2
    /\ extracted = Str("[s]\nc\n[t]\nd")

---------------------------------------------------------------------------
(* Properties of the viewer *)
\* the messages of the nodes on a path
MessagesOn(conv, path) ==
    SelectSeq([i \in 1..Len(path) |-> MessageOf(conv, path[i])], LAMBDA m : ~MsgFalsy(m))

\* a section headed by the role or the category label, holding the extracted text
C23_IsSection(line, m) ==
    \E label \in {Capitalize(RoleOfMessage(m)), DisplayRole(m),
                   Capitalize(GetMessageCategory(m))} :
        line = "## " \o label \o "\n\n"
               \o ExtractTextFromContent(Get(m[2].content, EmptyContent)) \o "\n\n"

C23_IsExport(lines, conv, msgs) ==
    /\ Len(lines) = 1 + Len(msgs)
    /\ lines[1] = "# " \o Get(conv.title, Str("Untitled"))[2] \o "\n\n"
    /\ \A i \in 1..Len(msgs) : C23_IsSection(lines[i + 1], msgs[i])

\* C23: a text export holds the title heading and then one section for every
\* message on the current branch, whatever its content type, with the text
\* extract_text_from_content gives for it.
C23_ExportHoldsEveryMessage ==
    [][(export_file' # export_file /\ export_file'[1] = "txt") =>
          C23_IsExport(export_file'[2], ArchiveConv(current_conv_id[2]),
                       MessagesOn(ArchiveConv(current_conv_id[2]), current_branch_path))]_vars

\* C26: the current branch path is empty or one of the branches of the
\* selected conversation.
C26_PathIsBranchOfSelected ==
    (current_conv_id # None /\ InArchive(current_conv_id[2])) =>
        \/ current_branch_path = <<>>
        \/ \E b \in 1..Len(BranchesOf(ArchiveConv(current_conv_id[2]))) :
              BranchesOf(ArchiveConv(current_conv_id[2]))[b] = current_branch_path

\* C27: a current conversation id is a key of the loaded archive, and neither
\* the display nor the export looked up a key the archive lacks.
C27_CurrentIdInArchive ==
    /\ current_conv_id # None => InArchive(current_conv_id[2])
    /\ msg_text # KeyError
    /\ export_file # KeyError

====
